---- MODULE Spec2Model ----
(***************************************************************************)
(* Model of the eligibility matcher of the Government Scheme Finder        *)
(* (src/scheme_finder_agents.py): EligibilityMatcherAgent with its rule    *)
(* engine _parse_eligibility_criteria, the catalog pass of process and the *)
(* LLM re-ranking of _ai_verify_top_schemes.                               *)
(*                                                                         *)
(* Python strings are TLA+ strings; TLC evaluates Len, SubSeq and \o on    *)
(* them, so substring tests, split, strip, lower and int() are computed    *)
(* character by character as the Python built-ins compute them.            *)
(***************************************************************************)
EXTENDS Integers, Sequences, FiniteSets, TLC

VARIABLES
    schemes_data,       \* EligibilityMatcherAgent.schemes_data (the catalog)
    calls,              \* the process() calls made so far, oldest first
    scheme,             \* argument of a direct _parse_eligibility_criteria call
    user_profile,       \* its profile argument
    eligibility_check,  \* its return value (NotCalled before the call)
    frames,             \* the locals of the process() invocations in progress
    orchestrator,       \* the fields of the SchemeFinderOrchestrator
    session_state,      \* st.session_state of the Streamlit app
    last_call,          \* the last call that reached an agent of the orchestrator
    SCHEMES_DF,         \* retrieval_agent.SCHEMES_DF, the rows of schemes.csv
    request,            \* the last request to the backend
    response            \* and what it returned

agent_vars == <<schemes_data, calls, scheme, user_profile, eligibility_check>>
app_vars == <<orchestrator, session_state, last_call>>
backend_vars == <<SCHEMES_DF, request, response>>

vars == <<schemes_data, calls, scheme, user_profile, eligibility_check, frames,
          orchestrator, session_state, last_call, SCHEMES_DF, request, response>>

---------------------------------------------------------------------------
(* Python string built-ins *)

CharAt(s, i) == SubSeq(s, i, i)

UpperCase == "ABCDEFGHIJKLMNOPQRSTUVWXYZ"
LowerCase == "abcdefghijklmnopqrstuvwxyz"
DigitChars == "0123456789"

\* 1-based index of character c in alphabet, 0 when absent
IndexIn(c, alphabet) ==
    IF \E i \in 1..Len(alphabet) : CharAt(alphabet, i) = c
    THEN CHOOSE i \in 1..Len(alphabet) : CharAt(alphabet, i) = c
    ELSE 0

IsDigit(c) == IndexIn(c, DigitChars) > 0

IsSpace(c) == c \in {" ", "\t", "\n", "\r"}

\* str.lower() on one character (ASCII letters; other characters unchanged)
LowerChar(c) ==
    LET k == IndexIn(c, UpperCase)
    IN  IF k > 0 THEN CharAt(LowerCase, k) ELSE c

\* pieces[lo] \o ... \o pieces[hi]
RECURSIVE Concat(_, _, _)
Concat(pieces, lo, hi) ==
    IF lo > hi THEN ""
    ELSE IF lo = hi THEN pieces[lo]
    ELSE LET mid == (lo + hi) \div 2
         IN  Concat(pieces, lo, mid) \o Concat(pieces, mid + 1, hi)

lower(s) == Concat([i \in 1..Len(s) |-> LowerChar(CharAt(s, i))], 1, Len(s))

\* sub in s
Contains(s, sub) ==
    \E i \in 1..(Len(s) - Len(sub) + 1) : SubSeq(s, i, i + Len(sub) - 1) = sub

\* any(kw in text for kw in keywords)
AnyIn(keywords, text) == \E kw \in keywords : Contains(text, kw)

\* s.replace(old, new) for a one-character old
replace(s, old, new) ==
    Concat([i \in 1..Len(s) |-> IF CharAt(s, i) = old THEN new ELSE CharAt(s, i)],
           1, Len(s))

\* s.split(sep) for a one-character sep: the list of the parts
RECURSIVE split(_, _)
split(s, sep) ==
    IF \E i \in 1..Len(s) : CharAt(s, i) = sep
    THEN LET k == CHOOSE i \in 1..Len(s) :
                     /\ CharAt(s, i) = sep
                     /\ \A j \in 1..(i - 1) : CharAt(s, j) # sep
         IN  <<SubSeq(s, 1, k - 1)>> \o split(SubSeq(s, k + 1, Len(s)), sep)
    ELSE <<s>>

\* s.strip()
strip(s) ==
    LET keep == {i \in 1..Len(s) : ~IsSpace(CharAt(s, i))}
    IN  IF keep = {} THEN ""
        ELSE SubSeq(s, CHOOSE i \in keep : \A j \in keep : i <= j,
                       CHOOSE i \in keep : \A j \in keep : i >= j)

\* ''.join(filter(str.isdigit, s))
RECURSIVE digits_of(_)
digits_of(s) ==
    IF Len(s) = 0 THEN ""
    ELSE (IF IsDigit(CharAt(s, 1)) THEN CharAt(s, 1) ELSE "")
         \o digits_of(SubSeq(s, 2, Len(s)))

AllDigits(s) == Len(s) > 0 /\ \A i \in 1..Len(s) : IsDigit(CharAt(s, i))

RECURSIVE DigitsValue(_)
DigitsValue(s) ==
    IF Len(s) = 0 THEN 0
    ELSE DigitsValue(SubSeq(s, 1, Len(s) - 1)) * 10
         + (IndexIn(CharAt(s, Len(s)), DigitChars) - 1)

\* int(s): surrounding blanks and one sign are accepted, then only digits.
\* IntOk is FALSE where int(s) raises ValueError.
IntBody(s) ==
    LET t == strip(s)
    IN  IF Len(t) > 0 /\ CharAt(t, 1) \in {"+", "-"} THEN SubSeq(t, 2, Len(t)) ELSE t

IntOk(s) == AllDigits(IntBody(s))

IntOf(s) ==
    LET t == strip(s)
        v == DigitsValue(IntBody(s))
    IN  IF Len(t) > 0 /\ CharAt(t, 1) = "-" THEN 0 - v ELSE v

\* LastNumber taking the first run of digits instead
FirstNumber(s) ==
    LET starts == {i \in 1..Len(s) : IsDigit(CharAt(s, i))}
    IN  IF starts = {} THEN ""
        ELSE LET b == CHOOSE i \in starts : \A j \in starts : i <= j
                 ends == {e \in b..Len(s) : \A j \in b..e : IsDigit(CharAt(s, j))}
                 e == CHOOSE i \in ends : \A j \in ends : i >= j
             IN  SubSeq(s, b, e)

\* re.findall(r'\d+', s)[-1]: the last maximal run of digits ("" when none)
LastNumber(s) ==
    LET ends == {i \in 1..Len(s) : IsDigit(CharAt(s, i))}
    IN  IF ends = {} THEN ""
        ELSE LET e == CHOOSE i \in ends : \A j \in ends : i >= j
                 starts == {b \in 1..e : \A j \in b..e : IsDigit(CharAt(s, j))}
                 b == CHOOSE i \in starts : \A j \in starts : i <= j
             IN  SubSeq(s, b, e)

---------------------------------------------------------------------------
(* JSON values of a scheme record and the optional income of a profile *)

Str(s) == [type |-> "str", str |-> s, num |-> 0]
Num(n) == [type |-> "int", str |-> "", num |-> n]
Null == [type |-> "null", str |-> "", num |-> 0]

IsStr(v) == v.type = "str"

\* dict.get(key, default)
get(d, key, default) == IF key \in DOMAIN d THEN d[key] ELSE default

\* Optional[float]: None is <<>>, a number n is <<n>>
None == <<>>
Some(n) == <<n>>
\* truthiness of "if user_profile.income:" (None and 0 are falsy)
Truthy(opt) == opt # None /\ opt[1] # 0

---------------------------------------------------------------------------
(* Keyword lists of _parse_eligibility_criteria *)

farmer_keywords ==
    {"farmer", "agriculture", "crop", "kisan", "krishi", "fasal", "sinchai",
     "irrigation", "farm", "agricultural", "agri", "cultivation", "pesticide"}

student_keywords ==
    {"student", "education", "scholarship", "school", "college", "study",
     "vidya", "merit", "academic", "university", "campus", "learning"}

business_keywords ==
    {"business", "entrepreneur", "mudra", "msme", "startup", "enterprise",
     "vyapar", "udyog", "industry", "commercial", "trade"}

worker_keywords ==
    {"worker", "labour", "labor", "shram", "mazdoor", "employee", "wage",
     "construction", "unorganized"}

women_keywords ==
    {"women", "woman", "mahila", "girl", "daughter", "beti", "female",
     "maternity", "mother", "widow"}

child_keywords ==
    {"child", "children", "infant", "baby", "newborn", "kid", "balak",
     "bachcha", "minor"}

elderly_keywords ==
    {"pension", "senior", "elderly", "old age", "aged", "vridha",
     "retirement", "retired"}

livestock_keywords ==
    {"livestock", "dairy", "cattle", "gokul", "pashu", "animal husbandry",
     "cow", "buffalo", "goat", "sheep", "poultry"}

fishery_keywords ==
    {"fish", "fishery", "fisheries", "matsya", "aqua", "fisher", "fishing",
     "marine", "aquaculture"}

skill_keywords ==
    {"skill", "training", "kaushal", "vocational", "apprentice", "coaching"}

\* farmer_user_keywords taking the retired for farmers too
farmer_user_keywords_wide ==
    {"farmer", "agriculture", "krishi", "kisan", "farm", "retired"}

farmer_user_keywords == {"farmer", "agriculture", "krishi", "kisan", "farm"}
student_user_keywords == {"student", "studying", "school", "college", "education"}
business_user_keywords ==
    {"business", "entrepreneur", "owner", "trader", "self-employed", "vyapari"}
worker_user_keywords ==
    {"worker", "labour", "labor", "employee", "mazdoor", "daily wage"}
livestock_user_keywords == {"dairy", "livestock", "cattle", "farmer"}
fisher_user_keywords == {"fisher", "fish", "aqua", "marine"}

\* female_genders without the one-letter form
female_genders_strict == {"female", "woman"}

female_genders == {"female", "f", "woman"}

income_sentinels ==
    {"No limit", "As per SECC data", "BPL households",
     "Excludes institutional landholders", "BPL / SECC-based"}

NoLimit == "No limit"

\* The en dash (U+2013) of the age-limit separator test and the rupee sign
\* (U+20B9) of the income test. The TLA+ lexer keeps no character beyond ASCII
\* inside a string, so two otherwise unused characters stand for them.
EnDash == "~"
Rupee == "$"

DefaultMaxAge == 150
MonthMinAge == 0
MonthMaxAge == 1
Lakh == 100000
SkillMaxAge == 45
PensionMinAge == 40
ChildMaxAge == 10
PerfectConfidence == 95
OneNoteConfidence == 75
ManyNotesConfidence == 60

---------------------------------------------------------------------------
(* EligibilityMatcherAgent._parse_eligibility_criteria *)

\* The returned dict; "raised" names the exception that left the function
\* instead ("" when it returned).
Verdict(eligible, reasons, confidence) ==
    [raised |-> "", eligible |-> eligible, reasons |-> reasons,
     confidence |-> confidence]

Reject(reason) == Verdict(FALSE, <<reason>>, 0)

Raise(exception) ==
    [raised |-> exception, eligible |-> FALSE, reasons |-> <<>>, confidence |-> 0]

TextKeys ==
    <<"scheme_name", "category", "eligibility", "target_beneficiaries", "scheme_type">>

\* scheme.get(key, '').lower() is an AttributeError on a value that is no string
TextFieldsAreStr(s) ==
    \A i \in 1..Len(TextKeys) : IsStr(get(s, TextKeys[i], Str("")))

TextOf(s, key) == lower(get(s, key, Str("")).str)

all_scheme_text(s) ==
    TextOf(s, "scheme_name") \o " " \o TextOf(s, "category") \o " "
    \o TextOf(s, "eligibility") \o " " \o TextOf(s, "target_beneficiaries")
    \o " " \o TextOf(s, "scheme_type")

\* has_flag reading no flag at all
has_flag_ignored(profile, key) == FALSE

has_flag(profile, key) == get(profile.additional_info, key, FALSE)

\* The six occupation gates, in the code's order: the note of the first gate
\* that rejects, "" when all pass.
OccupationGate(text, profile) ==
    LET user_occ == lower(profile.occupation)
    IN  IF AnyIn(farmer_keywords, text) /\ ~AnyIn(farmer_user_keywords, user_occ)
        THEN "Exclusively for farmers"
        ELSE IF AnyIn(student_keywords, text) /\ ~AnyIn(student_user_keywords, user_occ)
        THEN "Exclusively for students"
        ELSE IF AnyIn(business_keywords, text) /\ ~AnyIn(business_user_keywords, user_occ)
        THEN "Exclusively for business owners"
        ELSE IF AnyIn(worker_keywords, text) /\ ~AnyIn(worker_user_keywords, user_occ)
        THEN "Exclusively for workers/laborers"
        ELSE IF /\ AnyIn(livestock_keywords, text)
                /\ ~(AnyIn(livestock_user_keywords, user_occ)
                     \/ has_flag(profile, "has_livestock"))
        THEN "Exclusively for livestock farmers"
        ELSE IF AnyIn(fishery_keywords, text) /\ ~AnyIn(fisher_user_keywords, user_occ)
        THEN "Exclusively for fishermen"
        ELSE ""

\* One bound of an age limit: [ok, v]; ok is FALSE where int() raises ValueError.
AgeBound(text, month_value) ==
    IF Contains(lower(text), "month") THEN [ok |-> TRUE, v |-> month_value]
    ELSE IF Contains(lower(text), "year")
    THEN [ok |-> AllDigits(digits_of(text)), v |-> DigitsValue(digits_of(text))]
    ELSE [ok |-> IntOk(text), v |-> IntOf(text)]

\* InRange with the upper bound exclusive
InRange_ExclusiveMax(min_age, user_age, max_age) ==
    min_age <= user_age /\ user_age < max_age

\* STRICT: Must be within range (both bounds inclusive)
InRange(min_age, user_age, max_age) == min_age <= user_age /\ user_age <= max_age

\* BelowMin rejecting the minimum age itself
BelowMin_Inclusive(user_age, min_age) == user_age <= min_age

\* the open-ended test: user_age < min_age
BelowMin(user_age, min_age) == user_age < min_age

\* age_limit_of with adulthood as the default of an absent limit
age_limit_of_adult(s) == get(s, "age_limit", Str("18+"))

\* age_limit = scheme.get('age_limit', 'No limit')
age_limit_of(s) == get(s, "age_limit", Str(NoLimit))

\* The age block on a string age_limit: kind is "pass", "reject" (with the
\* rejection note) or "note" (the except branch, with the caveat note).
AgeGate(age_limit, user_age) ==
    LET pass == [kind |-> "pass", note |-> ""]
        unclear == [kind |-> "note",
                    note |-> "Age criteria needs verification: " \o age_limit]
    IN  IF age_limit = NoLimit THEN pass
        ELSE IF Contains(age_limit, EnDash) \/ Contains(age_limit, "-")
        THEN LET parts == split(replace(age_limit, EnDash, "-"), "-")
                 min_age == AgeBound(strip(parts[1]), MonthMinAge)
                 max_age == IF Len(parts) > 1
                            THEN AgeBound(strip(parts[2]), MonthMaxAge)
                            ELSE [ok |-> TRUE, v |-> DefaultMaxAge]
             IN  IF ~min_age.ok \/ ~max_age.ok THEN unclear
                 ELSE IF ~InRange(min_age.v, user_age, max_age.v)
                 THEN [kind |-> "reject", note |-> "Age must be " \o age_limit]
                 ELSE pass
        ELSE IF Contains(age_limit, "+")
        THEN LET min_age == AgeBound(strip(replace(age_limit, "+", "")), MonthMinAge)
             IN  IF ~min_age.ok THEN unclear
                 ELSE IF BelowMin(user_age, min_age.v)
                 THEN [kind |-> "reject",
                       note |-> "Minimum age is " \o ToString(min_age.v)]
                 ELSE pass
        ELSE pass

GenderGate(text, profile) ==
    IF AnyIn(women_keywords, text) /\ lower(profile.gender) \notin female_genders
    THEN "Exclusively for women"
    ELSE ""

LocationGate(text, profile) ==
    LET is_rural_scheme == \/ Contains(text, "rural")
                           \/ Contains(text, "gramin")
                           \/ Contains(text, "village")
        is_urban_scheme == Contains(text, "urban") /\ ~Contains(text, "rural")
    IN  IF is_rural_scheme /\ ~is_urban_scheme /\ profile.location_type # "rural"
        THEN "Exclusively for rural areas"
        ELSE IF is_urban_scheme /\ ~is_rural_scheme /\ profile.location_type # "urban"
        THEN "Exclusively for urban areas"
        ELSE ""

\* IncomeGate without the test on the currency marker
IncomeGate_NoMarker(income_limit, profile) ==
    IF /\ income_limit \notin income_sentinels
       /\ Truthy(profile.income)
       /\ Contains(lower(income_limit), "lakh")
       /\ LastNumber(income_limit) # ""
       /\ profile.income[1] > DigitsValue(LastNumber(income_limit)) * Lakh
    THEN "Income exceeds " \o Rupee
         \o ToString(DigitsValue(LastNumber(income_limit))) \o " lakh limit"
    ELSE ""

\* The income block on a string income_limit
IncomeGate(income_limit, profile) ==
    IF /\ income_limit \notin income_sentinels
       /\ Truthy(profile.income)
       /\ Contains(income_limit, Rupee)
       /\ Contains(lower(income_limit), "lakh")
       /\ LastNumber(income_limit) # ""
       /\ profile.income[1] > DigitsValue(LastNumber(income_limit)) * Lakh
    THEN "Income exceeds " \o Rupee
         \o ToString(DigitsValue(LastNumber(income_limit))) \o " lakh limit"
    ELSE ""

\* is_employed with the test on 'unemployed' left out
is_employed_loose(user_occ) == Contains(user_occ, "employed")

\* 'employed' in user_occ and 'unemployed' not in user_occ
is_employed(user_occ) ==
    Contains(user_occ, "employed") /\ ~Contains(user_occ, "unemployed")

\* child_rule rejecting from the age of 10 on
child_rule_inclusive(profile) ==
    profile.age >= ChildMaxAge /\ ~has_flag(profile, "has_children")

\* user_age > 10 and not user_profile.additional_info.get('has_children', False)
child_rule(profile) ==
    profile.age > ChildMaxAge /\ ~has_flag(profile, "has_children")

\* confidence_of giving one note the confidence of none
confidence_of_lenient(reasons) ==
    IF Len(reasons) <= 1 THEN PerfectConfidence ELSE ManyNotesConfidence

\* The confidence scoring: 95 without a note, 75 with one, 60 with more
confidence_of(reasons) ==
    IF Len(reasons) = 0 THEN PerfectConfidence
    ELSE IF Len(reasons) = 1 THEN OneNoteConfidence
    ELSE ManyNotesConfidence

\* The contextual block and the confidence scoring, given the notes so far
Contextual(text, profile, reasons) ==
    LET user_occ == lower(profile.occupation)
        is_skill_scheme == AnyIn(skill_keywords, text)
        noted == IF is_skill_scheme /\ is_employed(user_occ)
                 THEN Append(reasons, "Primarily for unemployed youth")
                 ELSE reasons
    IN  IF is_skill_scheme /\ profile.age > SkillMaxAge
        THEN Verdict(FALSE, Append(reasons, "Primarily for younger individuals"), 0)
        ELSE IF AnyIn(elderly_keywords, text) /\ profile.age < PensionMinAge
        THEN Reject("Pension schemes are for people 40+")
        ELSE IF AnyIn(child_keywords, text) /\ child_rule(profile)
        THEN Reject("For children or parents with children")
        ELSE Verdict(TRUE, noted, confidence_of(noted))

_parse_eligibility_criteria(s, profile) ==
    IF ~TextFieldsAreStr(s) THEN Raise("AttributeError")
    ELSE
    LET text == all_scheme_text(s)
        occupation == OccupationGate(text, profile)
        age_limit == age_limit_of(s)
        income_limit == get(s, "income_limit", Str(NoLimit))
    IN  IF occupation # "" THEN Reject(occupation)
        ELSE IF ~IsStr(age_limit) THEN Raise("TypeError")
        ELSE
        LET age == AgeGate(age_limit.str, profile.age)
            reasons == IF age.kind = "note" THEN <<age.note>> ELSE <<>>
        IN  IF age.kind = "reject" THEN Reject(age.note)
            ELSE IF GenderGate(text, profile) # ""
            THEN Reject(GenderGate(text, profile))
            ELSE IF LocationGate(text, profile) # ""
            THEN Reject(LocationGate(text, profile))
            ELSE IF ~IsStr(income_limit) /\ Truthy(profile.income)
            THEN Raise("TypeError")
            ELSE IF IsStr(income_limit) /\ IncomeGate(income_limit.str, profile) # ""
            THEN Reject(IncomeGate(income_limit.str, profile))
            ELSE Contextual(text, profile, reasons)

---------------------------------------------------------------------------
(* Inputs: scheme records as json.load gives them, and user profiles *)

\* A well-formed record of schemes.json
SchemeRecord(id, name, category, eligibility, target, type, age_limit, income_limit) ==
    [scheme_id |-> Num(id), scheme_name |-> Str(name), scheme_type |-> Str(type),
     category |-> Str(category), benefits |-> Str("Financial assistance"),
     eligibility |-> Str(eligibility), target_beneficiaries |-> Str(target),
     age_limit |-> age_limit, income_limit |-> income_limit]

\* The record without one key, and with one value replaced
Without(d, key) == [k \in DOMAIN d \ {key} |-> d[k]]
With(d, key, value) == [d EXCEPT ![key] = value]

\* The texts of the scheme classes: name, category, eligibility, target, type
BaseTexts ==
    [general   |-> <<"Jan Suraksha Yojana", "Banking", "All citizens", "", "Central">>,
     farmer    |-> <<"PM Kisan Yojana", "Agriculture", "Small farmers", "", "Central">>,
     student   |-> <<"Merit Scholarship", "Education", "", "Students", "State">>,
     business  |-> <<"Mudra Loan", "", "", "", "Central">>,
     worker    |-> <<"Shram Yogi Yojana", "", "Unorganized workers", "", "">>,
     livestock |-> <<"Dairy Vikas", "", "", "", "">>,
     fishery   |-> <<"Matsya Yojana", "", "", "", "">>,
     skill     |-> <<"Kaushal Vikas", "", "Youth", "", "">>,
     women     |-> <<"Mahila Shakti", "", "", "Women", "">>,
     elderly   |-> <<"Vridha Pension", "", "", "", "">>,
     child     |-> <<"Bal Poshan", "", "Children under 6", "", "">>,
     rural     |-> <<"Gramin Jan Yojana", "", "", "", "">>,
     urban     |-> <<"Urban Jan Yojana", "", "", "", "">>,
     mixed     |-> <<"Jan Yojana", "", "Rural and urban", "", "">>]

BaseScheme(class, id, age_limit, income_limit) ==
    LET t == BaseTexts[class]
    IN  SchemeRecord(id, t[1], t[2], t[3], t[4], t[5], age_limit, income_limit)

\* Age-limit texts as written: "min-max" with a separator, "min+" and "+min"
RangeText(lo, sep, hi) == ToString(lo) \o sep \o ToString(hi)
PlusTexts(n) == {ToString(n) \o "+", "+" \o ToString(n), ToString(n) \o " +"}

Separators == {"-", EnDash, " - "}
AgeBounds == {0, 18, 35, 60}

RangeTexts == {RangeText(lo, sep, hi) : lo \in AgeBounds, sep \in Separators, hi \in AgeBounds}
OpenTexts == UNION {PlusTexts(n) : n \in AgeBounds}

\* Range-shaped texts whose upper bound is missing
OpenRangeTexts == {ToString(lo) \o sep : lo \in AgeBounds \ {0}, sep \in {"-", EnDash}}

\* Texts that are neither "No limit", nor "min-max", nor "min+"
UnparsedTexts == {"Above 18", "Adults", "", "18 to 35", "eighteen-sixty", "sixty+", "-", "18"}

UnitTexts == {"0-6 months", "6 months-5 years", "18 years - 40 years", "60 years+",
              "6 months+", "years-5", "18-35-60"}

CoreAgeLimits ==
    {Str(NoLimit), Str("18-35"), Str("60+"), Str("18-"), Str("Above 18"), Num(18), Null}

IncomeLimits ==
    {Str(NoLimit), Str("BPL households"), Str(Rupee \o "2 lakh"), Str(Rupee \o "1-3 Lakh per annum"),
     Str("Rs 2 lakh"), Str(Rupee \o "250000"), Str("Upto " \o Rupee \o " lakh")}

UserProfile(age, income, location_type, occupation, gender, additional_info) ==
    [age |-> age, income |-> income, location_type |-> location_type,
     occupation |-> occupation, gender |-> gender, additional_info |-> additional_info]

NoInfo == [k \in {} |-> FALSE]
Info(key) == [k \in {key} |-> TRUE]

Ages == {0, 5, 10, 11, 17, 18, 35, 36, 40, 45, 46, 59, 60, 61, 150, 151}

\* Profiles by age; the first is create_sample_user_profile at age 35
ProfilesAged(age) ==
    {UserProfile(age, Some(150000), "rural", "farmer", "male", NoInfo),
     UserProfile(age, Some(250000), "urban", "Self-Employed trader", "Female", NoInfo),
     UserProfile(age, None, "urban", "unemployed", "female", Info("has_children")),
     UserProfile(age, Some(0), "rural", "College student", "male", Info("has_livestock")),
     UserProfile(age, Some(200000), "urban", "Construction worker", "woman", NoInfo),
     UserProfile(age, Some(300000), "rural", "retired", "male", NoInfo)}

---------------------------------------------------------------------------
(* The reply of self.model.generate_content(prompt) and its decoding *)

\* generate_content raised (network, quota, a blocked prompt)
LlmRaises == [raises |-> TRUE, text |-> ""]
LlmSays(text) == [raises |-> FALSE, text |-> text]

IsArrayChar(c) == IsDigit(c) \/ c = "," \/ IsSpace(c)

\* re.search(r'\[[\d,\s]+\]', text): the positions i of '[' from which the
\* pattern matches, and the index of the closing ']' of the match at i
ArrayEnd(text, i) ==
    CHOOSE j \in (i + 1)..(Len(text) + 1) :
        /\ j > Len(text) \/ ~IsArrayChar(CharAt(text, j))
        /\ \A k \in (i + 1)..(j - 1) : IsArrayChar(CharAt(text, k))

ArrayStarts(text) ==
    {i \in 1..Len(text) :
        /\ CharAt(text, i) = "["
        /\ ArrayEnd(text, i) > i + 1
        /\ ArrayEnd(text, i) <= Len(text)
        /\ CharAt(text, ArrayEnd(text, i)) = "]"}

\* json_match.group() without its brackets, for the leftmost match
ArrayBody(text) ==
    LET i == CHOOSE a \in ArrayStarts(text) : \A b \in ArrayStarts(text) : a <= b
    IN  SubSeq(text, i + 1, ArrayEnd(text, i) - 1)

\* A JSON number made of digits only: no leading zero, no blank inside
IsJsonInt(s) == AllDigits(s) /\ (Len(s) = 1 \/ CharAt(s, 1) # "0")

\* json.loads of the matched array: ok is FALSE where it raises JSONDecodeError
JsonArray(body) ==
    LET parts == split(body, ",")
    IN  IF strip(body) = "" THEN [ok |-> TRUE, ids |-> <<>>]
        ELSE IF \A k \in 1..Len(parts) : IsJsonInt(strip(parts[k]))
        THEN [ok |-> TRUE, ids |-> [k \in 1..Len(parts) |-> DigitsValue(strip(parts[k]))]]
        ELSE [ok |-> FALSE, ids |-> <<>>]

---------------------------------------------------------------------------
(* EligibilityMatcherAgent._ai_verify_top_schemes and process *)

AiVerifyThreshold == 10
AiVerifyTop == 25
MinConfidence == 60
AiBoost == 5
AiBoostCap == 98
AiPenalty == 10
AiPenaltyFloor == 55

AiVerifiedNote == "AI Verified"
\* the note appended, a check mark followed by the words
AiVerifiedMark == "(v) AI Verified"

Min(a, b) == IF a < b THEN a ELSE b
Max(a, b) == IF a > b THEN a ELSE b

Range(seq) == {seq[i] : i \in 1..Len(seq)}

\* next((s for s in schemes if s['scheme_id'] == scheme_id), None): the index
\* of the first entry with that id, 0 for None
FirstWithId(schemes, scheme_id) ==
    LET hits == {i \in 1..Len(schemes) : schemes[i].scheme_id = scheme_id}
    IN  IF hits = {} THEN 0 ELSE CHOOSE i \in hits : \A j \in hits : i <= j

\* The first loop mutates the dict it finds once per occurrence of its id in
\* verified_ids; this is the list of dicts after the first k ids.
RECURSIVE Boosted(_, _, _)
Boosted(schemes, verified_ids, k) ==
    IF k = 0 THEN schemes
    ELSE LET before == Boosted(schemes, verified_ids, k - 1)
             i == FirstWithId(schemes, verified_ids[k])
         IN  IF i = 0 THEN before
             ELSE [before EXCEPT
                     ![i].confidence = Min(AiBoostCap, @ + AiBoost),
                     ![i].notes = IF AiVerifiedNote \in Range(@) THEN @
                                  ELSE Append(@, AiVerifiedMark)]

\* Penalised without the floor of max(55, ...)
Penalised_NoFloor(schemes, verified_ids) ==
    [i \in 1..Len(schemes) |->
        IF schemes[i].scheme_id \in Range(verified_ids) THEN schemes[i]
        ELSE [schemes[i] EXCEPT !.confidence = @ - AiPenalty]]

\* The second loop lowers every dict whose id is not in verified_ids
Penalised(schemes, verified_ids) ==
    [i \in 1..Len(schemes) |->
        IF schemes[i].scheme_id \in Range(verified_ids) THEN schemes[i]
        ELSE [schemes[i] EXCEPT !.confidence = Max(AiPenaltyFloor, @ - AiPenalty)]]

\* verified_schemes holds references to the dicts of schemes: the verified ones
\* in the order of verified_ids (one entry per occurrence), then the others in
\* their order; read after both loops have run.
Reranked(schemes, verified_ids) ==
    LET final == Penalised(Boosted(schemes, verified_ids, Len(verified_ids)), verified_ids)
        found == SelectSeq([k \in 1..Len(verified_ids) |->
                                FirstWithId(schemes, verified_ids[k])],
                           LAMBDA i : i # 0)
        rest == SelectSeq([i \in 1..Len(schemes) |-> i],
                          LAMBDA i : schemes[i].scheme_id \notin Range(verified_ids))
    IN  [k \in 1..Len(found) |-> final[found[k]]]
        \o [k \in 1..Len(rest) |-> final[rest[k]]]

\* _ai_verify_top_schemes lowering every scheme where the reply gives no list
_ai_verify_lowers_on_failure(schemes, llm) ==
    IF llm.raises THEN Penalised(schemes, <<>>)
    ELSE LET response_text == strip(llm.text)
         IN  IF ArrayStarts(response_text) = {} THEN Penalised(schemes, <<>>)
             ELSE LET verified == JsonArray(ArrayBody(response_text))
                  IN  IF ~verified.ok THEN Penalised(schemes, <<>>)
                      ELSE Reranked(schemes, verified.ids)

_ai_verify_top_schemes(schemes, llm) ==
    IF llm.raises THEN schemes
    ELSE LET response_text == strip(llm.text)
         IN  IF ArrayStarts(response_text) = {} THEN schemes
             ELSE LET verified == JsonArray(ArrayBody(response_text))
                  IN  IF ~verified.ok THEN schemes
                      ELSE Reranked(schemes, verified.ids)

\* sort_by_confidence placing an entry before the entries of equal confidence
RECURSIVE sort_ties_reversed(_)
sort_ties_reversed(entries) ==
    IF Len(entries) = 0 THEN <<>>
    ELSE LET sorted == sort_ties_reversed(SubSeq(entries, 1, Len(entries) - 1))
             x == entries[Len(entries)]
             k == Cardinality({i \in 1..Len(sorted) : sorted[i].confidence > x.confidence})
         IN  SubSeq(sorted, 1, k) \o <<x>> \o SubSeq(sorted, k + 1, Len(sorted))

\* eligible_schemes.sort(key=lambda x: x['confidence'], reverse=True): a stable
\* sort, entries of equal confidence keep their order
RECURSIVE sort_by_confidence(_)
sort_by_confidence(entries) ==
    IF Len(entries) = 0 THEN <<>>
    ELSE LET sorted == sort_by_confidence(SubSeq(entries, 1, Len(entries) - 1))
             x == entries[Len(entries)]
             k == Cardinality({i \in 1..Len(sorted) : sorted[i].confidence >= x.confidence})
         IN  SubSeq(sorted, 1, k) \o <<x>> \o SubSeq(sorted, k + 1, Len(sorted))

\* The keys process reads with scheme[...]: a missing one is a KeyError
RequiredKeys == {"scheme_id", "scheme_name", "scheme_type", "benefits"}

Entry(s, check) ==
    [scheme_id |-> s["scheme_id"].num, scheme_name |-> s["scheme_name"].str,
     scheme_type |-> s["scheme_type"].str, benefits |-> s["benefits"].str,
     confidence |-> check.confidence, notes |-> check.reasons]

\* Included with the filter on the check left out
Included_Unfiltered(check) == check.confidence >= 0

Included(check) == check.eligible /\ check.confidence >= MinConfidence

---------------------------------------------------------------------------
(* The agent over a loaded catalog: the catalogs, the profiles and the LLM
   replies of the process calls *)

MaxCatalog == 12
MaxCalls == 2

\* Records of a catalog by kind
CatalogRecord(kind, id) ==
    CASE kind = "plain"    -> BaseScheme("general", id, Str(NoLimit), Str(NoLimit))
      [] kind = "caveat"   -> BaseScheme("general", id, Str("18-"), Str(NoLimit))
      [] kind = "skill"    -> BaseScheme("skill", id, Str("Above 18-"), Str(NoLimit))
      [] kind = "farmer"   -> BaseScheme("farmer", id, Str("18-60"), Str(Rupee \o "2 lakh"))
      [] kind = "student"  -> BaseScheme("student", id, Str(NoLimit), Str(NoLimit))
      [] kind = "elderly"  -> BaseScheme("elderly", id, Str("60+"), Str(NoLimit))
      [] kind = "no_id"    -> Without(BaseScheme("general", id, Str(NoLimit), Str(NoLimit)),
                                      "scheme_id")
      [] kind = "no_benefits" -> Without(BaseScheme("student", id, Str(NoLimit), Str(NoLimit)),
                                         "benefits")
      [] kind = "age_number" -> BaseScheme("general", id, Num(18), Str(NoLimit))
      [] kind = "null_text"  -> With(BaseScheme("general", id, Str(NoLimit), Str(NoLimit)),
                                     "eligibility", Null)

Kinds == {"plain", "caveat", "skill", "farmer", "student", "elderly",
          "no_id", "no_benefits", "age_number", "null_text"}

\* A catalog of n records: the records of head first, those of tail last, and
\* caveat and plain records in turn between them
Layout(head, tail, n) ==
    [i \in 1..n |->
        IF i <= Len(head) THEN head[i]
        ELSE IF i > n - Len(tail) THEN tail[i - (n - Len(tail))]
        ELSE IF i % 2 = 0 THEN "caveat" ELSE "plain"]

\* scheme ids run from 101 in catalog order
Catalog(layout) == [i \in 1..Len(layout) |-> CatalogRecord(layout[i], 100 + i)]

\* head and tail of the layouts
Frames ==
    {<< <<>>, <<>> >>,
     << <<"skill">>, <<"elderly", "skill">> >>,
     << <<"farmer", "no_benefits">>, <<"student">> >>,
     << <<"no_id">>, <<>> >>,
     << <<>>, <<"age_number">> >>,
     << <<"caveat">>, <<"null_text">> >>}

\* catalog sizes: the small ones, and those around the AI verification threshold
Lengths == {n \in 0..MaxCatalog : n <= 3 \/ n = 6 \/ n >= MaxCatalog - 2}

\* catalogs with more passing records than eligible_schemes[:25] keeps
LongCatalogs ==
    {Catalog(Layout(<<>>, <<>>, AiVerifyTop + 1)),
     Catalog(Layout(<<"skill">>, <<"elderly", "skill">>, AiVerifyTop + 2))}

Catalogs == {Catalog(Layout(f[1], f[2], n)) : f \in Frames, n \in Lengths} \cup LongCatalogs

CallProfiles ==
    {UserProfile(35, Some(150000), "rural", "farmer", "male", NoInfo),
     UserProfile(30, Some(250000), "urban", "Self-Employed trader", "Female", NoInfo)}

LlmReplies ==
    {LlmRaises,
     LlmSays("None of these schemes is a match."),
     LlmSays("[103, 101]"),
     LlmSays(" Best first: [112, 102, 102, 999]\n"),
     LlmSays("[101,,102]")}

\* process calls self._parse_eligibility_criteria(scheme, user_profile) on each
\* record of the catalog. The checks of the records and profiles above are
\* tabulated, so that each is computed once.
CatalogRecords ==
    {CatalogRecord(kind, id) : kind \in Kinds,
                               id \in 101..(100 + Max(MaxCatalog, AiVerifyTop + 2))}

\* create_user_profile_form: the profile built from the widgets of the form
FormProfile(age, gender, location_type, occupation, income) ==
    UserProfile(age, Some(income),
                IF Contains(location_type, "Rural") THEN "rural" ELSE "urban",
                lower(occupation), lower(gender), NoInfo)

\* what the user enters: age, gender, area, occupation, annual income
FormInputs ==
    {<<35, "Male", "Rural (gramin)", "farmer", 150000>>,
     <<20, "Male", "Urban (shahri)", "student", 100000>>,
     <<30, "Female", "Urban (shahri)", "business owner", 250000>>}

FormProfiles == {FormProfile(f[1], f[2], f[3], f[4], f[5]) : f \in FormInputs}

AgentProfiles == CallProfiles \cup FormProfiles

eligibility_checks ==
    [s \in CatalogRecords |->
        [profile \in AgentProfiles |-> _parse_eligibility_criteria(s, profile)]]

\* One turn of the loop over self.schemes_data, the list being `before`
loop_body(before, s, check) ==
    IF before.raised # "" THEN before
    ELSE IF check.raised # "" THEN [raised |-> check.raised, entries |-> <<>>]
    ELSE IF ~Included(check) THEN before
    ELSE IF ~(RequiredKeys \subseteq DOMAIN s)
    THEN [raised |-> "KeyError", entries |-> <<>>]
    ELSE [raised |-> "", entries |-> Append(before.entries, Entry(s, check))]

\* The first pass over the first n records: [raised, entries]
RECURSIVE first_pass(_, _, _)
first_pass(catalog, profile, n) ==
    IF n = 0 THEN [raised |-> "", entries |-> <<>>]
    ELSE loop_body(first_pass(catalog, profile, n - 1), catalog[n],
                   eligibility_checks[catalog[n]][profile])

\* second_pass running the AI verification on every non-empty list
second_pass_always(eligible_schemes, llm) ==
    IF Len(eligible_schemes) > 0
    THEN _ai_verify_top_schemes(
             SubSeq(eligible_schemes, 1, Min(AiVerifyTop, Len(eligible_schemes))), llm)
    ELSE eligible_schemes

\* Second pass: AI verification for top candidates (if >10 schemes found)
second_pass(eligible_schemes, llm) ==
    IF Len(eligible_schemes) > AiVerifyThreshold
    THEN _ai_verify_top_schemes(
             SubSeq(eligible_schemes, 1, Min(AiVerifyTop, Len(eligible_schemes))), llm)
    ELSE eligible_schemes

\* what process gives back: the exception that left the loop, or the dict
returned(raised, matched) ==
    IF raised # ""
    THEN [raised |-> raised, total_matched |-> 0, matched_schemes |-> <<>>]
    ELSE [raised |-> "", total_matched |-> Len(matched), matched_schemes |-> matched]

\* the sort and the second pass on the list of the first pass
rank(pass, llm) ==
    returned(pass.raised, second_pass(sort_by_confidence(pass.entries), llm))

\* EligibilityMatcherAgent.process: what the call gives back
process(catalog, profile, llm) ==
    rank(first_pass(catalog, profile, Len(catalog)), llm)

---------------------------------------------------------------------------
(* Direct calls of the rule engine: one scheme record, one profile *)

\* No app is running, no request is served, no invocation is in progress
NoFrames == frames = <<>>
NoApp == orchestrator = <<>> /\ session_state = <<>> /\ last_call = <<>>
NoBackend == SCHEMES_DF = <<>> /\ request = <<>> /\ response = <<>>

Classes == DOMAIN BaseTexts

AgeTexts == RangeTexts \cup OpenTexts \cup OpenRangeTexts \cup UnparsedTexts \cup UnitTexts

CriteriaSchemes ==
    {BaseScheme(c, 1, a, Str(NoLimit)) : c \in Classes, a \in CoreAgeLimits}
    \cup {Without(BaseScheme(c, 1, Str(NoLimit), Str(NoLimit)), "age_limit") : c \in Classes}
    \cup {BaseScheme("general", 1, Str(t), Str(NoLimit)) : t \in AgeTexts}
    \cup {BaseScheme(c, 1, Str(NoLimit), i) : c \in {"general", "farmer"}, i \in IncomeLimits}
    \cup {With(BaseScheme("general", 1, Str("18-35"), Str(NoLimit)), "eligibility", Null),
          With(BaseScheme("farmer", 1, Str("18-35"), Str(NoLimit)), "category", Num(7)),
          Without(BaseScheme("general", 1, Str("18-35"), Str(NoLimit)), "scheme_name"),
          BaseScheme("general", 1, Str(NoLimit), Num(200000))}

CriteriaProfiles == UNION {ProfilesAged(a) : a \in Ages}

InitCriteria ==
    /\ schemes_data = <<>>
    /\ calls = <<>>
    /\ scheme \in CriteriaSchemes
    /\ user_profile \in CriteriaProfiles
    /\ eligibility_check = <<>>
    /\ NoFrames /\ NoApp /\ NoBackend

\* eligibility_check = self._parse_eligibility_criteria(scheme, user_profile)
ParseEligibility ==
    /\ eligibility_check = <<>>
    /\ eligibility_check' = <<_parse_eligibility_criteria(scheme, user_profile)>>
    /\ UNCHANGED <<schemes_data, calls, scheme, user_profile>>
    /\ UNCHANGED <<frames, app_vars, backend_vars>>

NextCriteria == ParseEligibility

SpecCriteria == InitCriteria /\ [][NextCriteria]_vars

---------------------------------------------------------------------------
(* Direct calls of the rule engine on the inputs of the gates: schemes of one
   and of several classes, and profiles that vary one field at a time *)

\* Texts of schemes of several classes: name, category, eligibility, target, type
MultiTexts ==
    [farmer_student    |-> <<"Krishi Scholarship", "", "", "", "">>,
     dairy_student     |-> <<"Dairy Scholarship", "", "", "", "State">>,
     farmer_livestock  |-> <<"Kisan Pashu Yojana", "", "", "", "">>,
     fishery_business  |-> <<"Matsya Udyog", "", "", "", "">>,
     worker_skill      |-> <<"Shram Kaushal", "", "", "", "">>,
     skill_child       |-> <<"Balak Kaushal", "", "", "", "">>,
     skill_women       |-> <<"Mahila Kaushal", "", "", "", "">>,
     elderly_child     |-> <<"Vridha Balak Yojana", "", "", "", "">>,
     gramin_urban      |-> <<"Gramin Urban Yojana", "", "", "", "">>,
     village           |-> <<"Jan Yojana", "", "Village households", "", "">>]

MultiScheme(class, id, age_limit, income_limit) ==
    LET t == MultiTexts[class]
    IN  SchemeRecord(id, t[1], t[2], t[3], t[4], t[5], age_limit, income_limit)

GateAgeLimits == {Str(NoLimit), Str("18-")}

GateIncomeLimits ==
    IncomeLimits \cup {Str(Rupee \o "2.5 lakh"), Str("Below " \o Rupee \o "5 LAKH (2024)")}

GateSchemes ==
    {BaseScheme(c, 1, a, Str(NoLimit)) : c \in DOMAIN BaseTexts, a \in GateAgeLimits}
    \cup {MultiScheme(c, 1, a, Str(NoLimit)) : c \in DOMAIN MultiTexts, a \in GateAgeLimits}
    \cup {BaseScheme(c, 1, Str(NoLimit), i) : c \in {"general", "farmer"}, i \in GateIncomeLimits}
    \cup {BaseScheme("farmer", 1, Str("18-60"), Str(Rupee \o "2 lakh"))}

GateOccupations ==
    {"farmer", "College student", "Self-Employed trader", "Construction worker",
     "unemployed", "retired", "Fisherman", "Dairy owner", "employed clerk"}

Genders == {"male", "Female", "F", "woman", "WOMAN", "female ", "Other"}

Incomes ==
    {None, Some(0), Some(150000), Some(200000), Some(200001), Some(250000),
     Some(300000), Some(300001), Some(500000), Some(500001)}

ContextAges == {10, 11, 39, 40, 45, 46}

GateProfiles ==
    {UserProfile(35, Some(150000), "rural", occ, "male", info) :
        occ \in GateOccupations, info \in {NoInfo, Info("has_livestock")}}
    \cup {UserProfile(61, None, "urban", occ, "Female", NoInfo) : occ \in GateOccupations}
    \cup {UserProfile(30, Some(150000), loc, "unemployed", g, NoInfo) :
            loc \in {"rural", "urban"}, g \in Genders}
    \cup {UserProfile(30, inc, "rural", "farmer", "male", NoInfo) : inc \in Incomes}
    \cup {UserProfile(a, Some(150000), "urban", occ, "female", info) :
            a \in ContextAges,
            occ \in {"unemployed", "Self-Employed trader", "employed clerk"},
            info \in {NoInfo, Info("has_children")}}

InitGates ==
    /\ schemes_data = <<>>
    /\ calls = <<>>
    /\ scheme \in GateSchemes
    /\ user_profile \in GateProfiles
    /\ eligibility_check = <<>>
    /\ NoFrames /\ NoApp /\ NoBackend

SpecGates == InitGates /\ [][NextCriteria]_vars

---------------------------------------------------------------------------
(* Calls of process on the agent *)

Init ==
    /\ schemes_data \in Catalogs
    /\ calls = <<>>
    /\ scheme = Null
    /\ user_profile = Null
    /\ eligibility_check = <<>>
    /\ NoFrames /\ NoApp /\ NoBackend

\* result = agent.process(profile), the LLM answering llm
Process(profile, llm) ==
    /\ Len(calls) < MaxCalls
    /\ calls' = Append(calls, [user_profile |-> profile, llm |-> llm,
                               result |-> process(schemes_data, profile, llm)])
    /\ UNCHANGED <<schemes_data, scheme, user_profile, eligibility_check>>
    /\ UNCHANGED <<frames, app_vars, backend_vars>>

Next == \E profile \in CallProfiles, llm \in LlmReplies : Process(profile, llm)

Spec == Init /\ [][Next]_vars

---------------------------------------------------------------------------
(* Properties of process, checked under Spec *)

Calls == {calls[k] : k \in 1..Len(calls)}
Returned(c) == c.result.raised = ""
Matched(c) == c.result.matched_schemes

\* the check of the i-th catalog record for the profile of call c
CheckOf(c, i) == eligibility_checks[schemes_data[i]][c.user_profile]

\* the catalog records that pass the rules for the profile of call c
Passing(c) ==
    {i \in 1..Len(schemes_data) :
        /\ CheckOf(c, i).raised = ""
        /\ CheckOf(c, i).eligible
        /\ CheckOf(c, i).confidence >= MinConfidence}

\* the reply of the LLM holds a JSON array of ids that json.loads accepts
ReplyParses(llm) ==
    /\ ~llm.raises
    /\ ArrayStarts(strip(llm.text)) # {}
    /\ JsonArray(ArrayBody(strip(llm.text))).ok

\* the second pass ran and rewrote the list
AiRewrote(c) == Cardinality(Passing(c)) > AiVerifyThreshold /\ ReplyParses(c.llm)

HasId(i) == "scheme_id" \in DOMAIN schemes_data[i]
IdOf(i) == schemes_data[i]["scheme_id"].num
PositionOf(id) == CHOOSE i \in 1..Len(schemes_data) : HasId(i) /\ IdOf(i) = id

\* C1: a scheme that _parse_eligibility_criteria rejects (eligible False,
\* confidence 0) is in no matched_schemes list that process returns, wherever
\* it stands in the catalog and whether or not the AI verification ran.
C1_RejectedNeverMatched ==
    \A c \in Calls :
        Returned(c) =>
            \A i \in 1..Len(schemes_data) :
                (HasId(i) /\ CheckOf(c, i).raised = "" /\ ~CheckOf(c, i).eligible) =>
                    \A m \in 1..Len(Matched(c)) : Matched(c)[m].scheme_id # IdOf(i)

\* a returned list that the AI verification rewrote, over a catalog with a
\* rejected scheme among more than ten passing ones
C1_Witness ==
    \E c \in Calls :
        /\ Returned(c)
        /\ AiRewrote(c)
        /\ Len(Matched(c)) > AiVerifyThreshold
        /\ \E i \in 1..Len(schemes_data) :
              /\ HasId(i)
              /\ ~CheckOf(c, i).eligible
              /\ CheckOf(c, i).confidence = 0
              /\ i < Len(schemes_data)

SortedByConfidence(list) ==
    \A a, b \in 1..Len(list) : a < b => list[a].confidence >= list[b].confidence

TiesInCatalogOrder(list) ==
    \A a, b \in 1..Len(list) :
        (a < b /\ list[a].confidence = list[b].confidence) =>
            PositionOf(list[a].scheme_id) < PositionOf(list[b].scheme_id)

Malformed(s) ==
    \/ ~(RequiredKeys \subseteq DOMAIN s)
    \/ ~TextFieldsAreStr(s)
    \/ ~IsStr(age_limit_of(s))

WellFormedPart(catalog) == SelectSeq(catalog, LAMBDA s : ~Malformed(s))

\* C5 as claimed: no exception leaves process, and the result is the one of
\* the catalog without its malformed records.
C5_NoExceptionPropagates ==
    \A c \in Calls :
        /\ Returned(c)
        /\ c.result = process(WellFormedPart(schemes_data), c.user_profile, c.llm)

---------------------------------------------------------------------------
(* Properties of the age gate, checked under SpecCriteria *)

Called == eligibility_check # <<>>
Check == eligibility_check[1]

\* the scheme carries the age_limit text t
AgeLimitIs(t) == "age_limit" \in DOMAIN scheme /\ scheme["age_limit"] = Str(t)

\* the scheme has no age limit: the text "No limit", or no age_limit key
HasNoAgeLimit == "age_limit" \notin DOMAIN scheme \/ AgeLimitIs(NoLimit)

\* the call came as far as the age block: the text fields are strings and no
\* occupation gate returned before it
ReachedAgeGate ==
    /\ Called
    /\ TextFieldsAreStr(scheme)
    /\ OccupationGate(all_scheme_text(scheme), user_profile) = ""

RangeRejection(t) == "Age must be " \o t
MinimumRejection(n) == "Minimum age is " \o ToString(n)
AgeCaveat(t) == "Age criteria needs verification: " \o t

\* the call returned the rejection of the age block with this note
AgeRejectedWith(note) ==
    /\ Check.raised = ""
    /\ ~Check.eligible
    /\ Check.confidence = 0
    /\ Check.reasons = <<note>>

\* how often a note stands in the reasons of the call
NoteCount(note) ==
    Cardinality({k \in 1..Len(Check.reasons) : Check.reasons[k] = note})

\* C6: for an age_limit "min-max" with integer bounds and a hyphen or an en
\* dash between them, the age block rejects the scheme (with "Age must be
\* min-max") exactly when the profile's age is < min or > max; an age within
\* the inclusive bounds draws neither the rejection nor a caveat note.
C6_RangeInclusive ==
    \A lo \in AgeBounds, hi \in AgeBounds, sep \in Separators :
        (AgeLimitIs(RangeText(lo, sep, hi)) /\ ReachedAgeGate) =>
            /\ AgeRejectedWith(RangeRejection(RangeText(lo, sep, hi)))
                   <=> (user_profile.age < lo \/ user_profile.age > hi)
            /\ NoteCount(AgeCaveat(RangeText(lo, sep, hi))) = 0

\* "18~35" (en dash) at the upper bound itself: age 35 is accepted
C6_Witness ==
    /\ ReachedAgeGate
    /\ AgeLimitIs(RangeText(18, EnDash, 35))
    /\ user_profile.age = 35
    /\ Check.eligible
    /\ Check.reasons = <<>>

\* C7: for an age_limit made of an integer and a '+' ("60+", "+60", "60 +"),
\* the age block rejects the scheme (with "Minimum age is min") exactly when
\* the profile's age is < min; no age at or above min is rejected by it or
\* draws a caveat note, however large.
C7_OpenEnded ==
    \A n \in AgeBounds :
        \A t \in PlusTexts(n) :
            (AgeLimitIs(t) /\ ReachedAgeGate) =>
                /\ AgeRejectedWith(MinimumRejection(n)) <=> user_profile.age < n
                /\ NoteCount(AgeCaveat(t)) = 0

\* "+60" at the minimum itself: age 60 is accepted
C7_Witness ==
    /\ ReachedAgeGate
    /\ AgeLimitIs("+60")
    /\ user_profile.age = 60
    /\ Check.eligible
    /\ Check.reasons = <<>>

\* the verdict of the same call for the profile at another age
CheckAtAge(a) == _parse_eligibility_criteria(scheme, [user_profile EXCEPT !.age = a])

\* the scheme's text matches one of the classes whose contextual rule reads the age
HasAgedClass ==
    \/ AnyIn(skill_keywords, all_scheme_text(scheme))
    \/ AnyIn(elderly_keywords, all_scheme_text(scheme))
    \/ AnyIn(child_keywords, all_scheme_text(scheme))

\* C8 as claimed: for a scheme whose age_limit is "No limit" or absent, two
\* profiles that differ only in age get the same accept/reject outcome.
C8_AgeNeverRejects ==
    (Called /\ HasNoAgeLimit /\ TextFieldsAreStr(scheme)) =>
        \A a \in Ages : CheckAtAge(a).eligible = Check.eligible

\* C8 as amended: for a scheme whose age_limit is "No limit" or absent, the
\* age block neither rejects nor adds a caveat, and two profiles that differ
\* only in age get the same verdict unless the scheme's text matches a
\* skill/training, elderly/pension or child keyword (whose contextual rules
\* reject by age).
C8_AgeGateNeverRejects ==
    (Called /\ HasNoAgeLimit /\ TextFieldsAreStr(scheme)) =>
        /\ \A k \in 1..Len(Check.reasons) :
              /\ SubSeq(Check.reasons[k], 1, 4) # "Age "
              /\ SubSeq(Check.reasons[k], 1, 12) # "Minimum age "
        /\ ~HasAgedClass => \A a \in Ages : CheckAtAge(a) = Check

\* a scheme without an age_limit key, of no aged class, accepted for a child of 5
C8_Witness ==
    /\ Called
    /\ "age_limit" \notin DOMAIN scheme
    /\ TextFieldsAreStr(scheme)
    /\ ~HasAgedClass
    /\ user_profile.age = 5
    /\ Check.eligible
    /\ Check.confidence = PerfectConfidence

\* C9 as claimed: for a range-shaped age_limit without an upper bound ("18-"),
\* the age block uses 150 as the upper bound: an age with min <= age <= 150 is
\* not rejected by it and draws no caveat note.
C9_MissingUpperBoundDefaults ==
    \A lo \in AgeBounds \ {0} :
        \A sep \in {"-", EnDash} :
            (/\ AgeLimitIs(ToString(lo) \o sep)
             /\ ReachedAgeGate
             /\ lo <= user_profile.age
             /\ user_profile.age <= DefaultMaxAge) =>
                /\ ~AgeRejectedWith(RangeRejection(ToString(lo) \o sep))
                /\ NoteCount(AgeCaveat(ToString(lo) \o sep)) = 0

\* C10 as claimed: for an age_limit text that is neither "No limit", nor a
\* "min-max" range, nor a "min+" bound, the age block does not reject the
\* scheme and appends exactly one "Age criteria needs verification" note.
C10_UnparsedGetsOneNote ==
    \A t \in UnparsedTexts :
        (AgeLimitIs(t) /\ ReachedAgeGate) =>
            /\ ~AgeRejectedWith(RangeRejection(t))
            /\ NoteCount(AgeCaveat(t)) = 1

---------------------------------------------------------------------------
(* Properties of the occupation gates, checked under SpecGates *)

\* the search text of the scheme and the lower-cased occupation of the profile
Text == all_scheme_text(scheme)
Occupation == lower(user_profile.occupation)

\* the call returned a rejection with exactly this note
RejectedWith(note) ==
    /\ Check.raised = ""
    /\ ~Check.eligible
    /\ Check.confidence = 0
    /\ Check.reasons = <<note>>

\* the scheme matches a keyword of an occupation class other than farmer
OtherOccupationClass ==
    \/ AnyIn(student_keywords, Text)
    \/ AnyIn(business_keywords, Text)
    \/ AnyIn(worker_keywords, Text)
    \/ AnyIn(livestock_keywords, Text)
    \/ AnyIn(fishery_keywords, Text)
    \/ AnyIn(skill_keywords, Text)

\* C11: a scheme whose text holds a farmer keyword and no keyword of another
\* occupation class is rejected ("Exclusively for farmers") for every profile
\* whose occupation holds none of farmer, agriculture, krishi, kisan, farm,
\* whatever its age, income, gender and location.
C11_FarmerOnly ==
    (/\ Called
     /\ TextFieldsAreStr(scheme)
     /\ ~AnyIn({"farmer", "agriculture", "krishi", "kisan", "farm"}, Occupation)
     /\ AnyIn(farmer_keywords, Text)
     /\ ~OtherOccupationClass) =>
        RejectedWith("Exclusively for farmers")

\* a farmer-only scheme without age or income limit, rejected for a retired
\* woman of 61 in a town with no income on record
C11_Witness ==
    /\ Called
    /\ AnyIn(farmer_keywords, Text)
    /\ ~OtherOccupationClass
    /\ HasNoAgeLimit
    /\ user_profile.occupation = "retired"
    /\ user_profile.age = 61
    /\ user_profile.income = None
    /\ user_profile.gender = "Female"
    /\ user_profile.location_type = "urban"
    /\ RejectedWith("Exclusively for farmers")

\* The occupation classes in the order of their gates, the skill/training
\* class last: scheme keywords, user keywords and rejection note of each
OccupationClasses ==
    <<[scheme |-> farmer_keywords, user |-> farmer_user_keywords,
       note |-> "Exclusively for farmers"],
      [scheme |-> student_keywords, user |-> student_user_keywords,
       note |-> "Exclusively for students"],
      [scheme |-> business_keywords, user |-> business_user_keywords,
       note |-> "Exclusively for business owners"],
      [scheme |-> worker_keywords, user |-> worker_user_keywords,
       note |-> "Exclusively for workers/laborers"],
      [scheme |-> livestock_keywords, user |-> livestock_user_keywords,
       note |-> "Exclusively for livestock farmers"],
      [scheme |-> fishery_keywords, user |-> fisher_user_keywords,
       note |-> "Exclusively for fishermen"],
      [scheme |-> skill_keywords, user |-> {"unemployed"},
       note |-> "Primarily for unemployed youth"]>>

LivestockClass == 5
SkillClass == 7

HasLivestockFlag ==
    /\ "has_livestock" \in DOMAIN user_profile.additional_info
    /\ user_profile.additional_info["has_livestock"]

\* the scheme is of class c, and the profile is of class c. For skill/training
\* the code names no user keyword list; its one test on the occupation (line
\* 294) counts everyone as matching but the employed who are not unemployed.
ClassActive(c) == AnyIn(OccupationClasses[c].scheme, Text)
ClassMatched(c) ==
    IF c = SkillClass
    THEN ~Contains(Occupation, "employed") \/ AnyIn(OccupationClasses[c].user, Occupation)
    ELSE \/ AnyIn(OccupationClasses[c].user, Occupation)
         \/ c = LivestockClass /\ HasLivestockFlag

\* the classes among the first n whose gate the profile fails
FailedClasses(n) == {c \in 1..n : ClassActive(c) /\ ~ClassMatched(c)}

OccupationNotes == {OccupationClasses[c].note : c \in 1..6}

\* C12 as claimed: for each of the seven occupation classes, a scheme whose
\* text holds a keyword of the class is rejected unless the profile's
\* occupation matches the class (for livestock: or has_livestock is true).
C12_SevenClassesGate ==
    (Called /\ TextFieldsAreStr(scheme)) =>
        (FailedClasses(7) # {} => Check.raised = "" /\ ~Check.eligible)

\* C12 as amended: for each of the six occupation classes farmer, student,
\* business, worker, livestock, fishery, a scheme whose text holds a keyword of
\* the class is rejected unless the profile's occupation matches the class
\* (for livestock: or has_livestock is true); with several classes active the
\* profile must match all, and the note is that of the first class it fails.
\* No occupation note is returned otherwise: a skill/training keyword does not
\* gate by occupation.
C12_SixClassesGate ==
    (Called /\ TextFieldsAreStr(scheme)) =>
        IF FailedClasses(6) # {}
        THEN \E c \in FailedClasses(6) :
                /\ \A d \in FailedClasses(6) : c <= d
                /\ RejectedWith(OccupationClasses[c].note)
        ELSE /\ Check.raised = ""
             /\ \A k \in 1..Len(Check.reasons) : Check.reasons[k] \notin OccupationNotes

\* a scheme of two classes (livestock and student) accepted for a student whose
\* has_livestock flag is set
C12_Witness ==
    /\ Called
    /\ ClassActive(2)
    /\ ClassActive(LivestockClass)
    /\ ~AnyIn(livestock_user_keywords, Occupation)
    /\ HasLivestockFlag
    /\ FailedClasses(6) = {}
    /\ Check.eligible

---------------------------------------------------------------------------
(* Properties of the gender, location and income gates, under SpecGates *)

\* the age block of the call did not return
AgePassed ==
    /\ ReachedAgeGate
    /\ IsStr(age_limit_of(scheme))
    /\ AgeGate(age_limit_of(scheme).str, user_profile.age).kind # "reject"

\* the call came as far as the gender, the location, the income block
ReachedGenderGate == AgePassed
ReachedLocationGate == ReachedGenderGate /\ GenderGate(Text, user_profile) = ""
ReachedIncomeGate == ReachedLocationGate /\ LocationGate(Text, user_profile) = ""

\* the text holds a rural/village keyword, the urban keyword
HasRuralWord ==
    Contains(Text, "rural") \/ Contains(Text, "gramin") \/ Contains(Text, "village")
HasUrbanWord == Contains(Text, "urban")

\* C13 as claimed: a scheme is rural-only when its text holds a rural/village
\* keyword and not the urban keyword, urban-only when it holds the urban
\* keyword and no rural/village keyword, unrestricted otherwise (so when it
\* holds both "rural" and "urban"); the location gate rejects exactly when the
\* scheme is rural-only and location_type is not rural, or urban-only and
\* location_type is not urban.
C13_LocationGate ==
    ReachedLocationGate =>
        /\ RejectedWith("Exclusively for rural areas")
              <=> (HasRuralWord /\ ~HasUrbanWord /\ user_profile.location_type # "rural")
        /\ RejectedWith("Exclusively for urban areas")
              <=> (HasUrbanWord /\ ~HasRuralWord /\ user_profile.location_type # "urban")

\* C14 as claimed: when the scheme's text holds a women-oriented keyword the
\* gender gate rejects exactly when the lower-cased gender is neither "female"
\* nor "woman"; without such a keyword gender never causes rejection.
C14_GenderGate ==
    ReachedGenderGate =>
        (RejectedWith("Exclusively for women")
            <=> (/\ AnyIn(women_keywords, Text)
                 /\ lower(user_profile.gender) \notin {"female", "woman"}))

\* C14 as amended: when the scheme's text holds a women-oriented keyword the
\* gender gate rejects exactly when the lower-cased gender is none of
\* "female", "f", "woman" (compared whole, not trimmed); without such a
\* keyword gender never causes rejection.
C14_GenderGateWithF ==
    ReachedGenderGate =>
        (RejectedWith("Exclusively for women")
            <=> (/\ AnyIn(women_keywords, Text)
                 /\ lower(user_profile.gender) \notin {"female", "f", "woman"}))

\* a women's scheme accepted for a profile whose gender is written "F"
C14_Witness ==
    /\ ReachedGenderGate
    /\ AnyIn(women_keywords, Text)
    /\ user_profile.gender = "F"
    /\ Check.eligible

\* the text s begins with prefix
StartsWith(s, prefix) ==
    Len(s) >= Len(prefix) /\ SubSeq(s, 1, Len(prefix)) = prefix

\* the scheme carries the income_limit text t
IncomeLimitIs(t) == "income_limit" \in DOMAIN scheme /\ scheme["income_limit"] = Str(t)

\* the income_limit is a text with the currency marker and the word "lakh"
HasLakhLimit ==
    /\ "income_limit" \in DOMAIN scheme
    /\ IsStr(scheme["income_limit"])
    /\ Contains(scheme["income_limit"].str, Rupee)
    /\ Contains(lower(scheme["income_limit"].str), "lakh")

IncomeRejection(lakhs) == "Income exceeds " \o Rupee \o ToString(lakhs) \o " lakh limit"

\* some note of the call is an income rejection
HasIncomeNote ==
    \E k \in 1..Len(Check.reasons) : StartsWith(Check.reasons[k], "Income exceeds")

\* the income limits with the marker, the word and an integer, and the last
\* integer in each
LakhLimits ==
    {<<Rupee \o "2 lakh", 2>>, <<Rupee \o "1-3 Lakh per annum", 3>>,
     <<Rupee \o "2.5 lakh", 5>>, <<"Below " \o Rupee \o "5 LAKH (2024)", 2024>>}

\* C15: when income_limit holds the currency marker and the word "lakh" and
\* the profile's income is set, the cap is the last integer in the text times
\* 100000 and the income gate rejects exactly when income > cap: for "$2 lakh",
\* 250000 is rejected, 150000 and exactly 200000 pass.
C15_IncomeGate ==
    /\ \A l \in LakhLimits :
          (IncomeLimitIs(l[1]) /\ user_profile.income # None /\ ReachedIncomeGate) =>
              /\ RejectedWith(IncomeRejection(l[2]))
                    <=> user_profile.income[1] > l[2] * 100000
              /\ HasIncomeNote => user_profile.income[1] > l[2] * 100000
    /\ (Called /\ HasLakhLimit /\ LastNumber(scheme["income_limit"].str) # "") =>
          \E l \in LakhLimits : IncomeLimitIs(l[1])

\* "$2 lakh" and an income of exactly 200000: accepted
C15_Witness ==
    /\ ReachedIncomeGate
    /\ IncomeLimitIs(Rupee \o "2 lakh")
    /\ user_profile.income = Some(200000)
    /\ Check.eligible
    /\ Check.reasons = <<>>

\* the verdict of the same call for the profile with another income
CheckAtIncome(income) ==
    _parse_eligibility_criteria(scheme, [user_profile EXCEPT !.income = income])

\* C16: income never causes rejection when the profile's income is unset, when
\* income_limit is one of the sentinel phrases, or when income_limit is a text
\* without the currency marker or without "lakh": no income rejection is
\* returned, and in the last two cases the verdict is the same as for the
\* profile with no income and with a very high one.
C16_IncomeNeverRejects ==
    (Called /\ Check.raised = "" /\ IsStr(get(scheme, "income_limit", Str(NoLimit)))) =>
        /\ user_profile.income = None => ~HasIncomeNote
        /\ (\/ get(scheme, "income_limit", Str(NoLimit)).str \in
                   {"No limit", "As per SECC data", "BPL households",
                    "Excludes institutional landholders", "BPL / SECC-based"}
            \/ ~HasLakhLimit) =>
               /\ ~HasIncomeNote
               /\ CheckAtIncome(None) = Check
               /\ CheckAtIncome(Some(500001)) = Check

\* "Rs 2 lakh" (no currency marker) and an income of 500001: accepted
C16_Witness ==
    /\ ReachedIncomeGate
    /\ IncomeLimitIs("Rs 2 lakh")
    /\ user_profile.income = Some(500001)
    /\ Check.eligible

---------------------------------------------------------------------------
(* Properties of the contextual block and of the verdict, under SpecGates *)

\* the call came as far as the contextual block
ReachedContextual ==
    /\ ReachedIncomeGate
    /\ IsStr(get(scheme, "income_limit", Str(NoLimit)))
    /\ IncomeGate(get(scheme, "income_limit", Str(NoLimit)).str, user_profile) = ""

HasChildrenFlag ==
    /\ "has_children" \in DOMAIN user_profile.additional_info
    /\ user_profile.additional_info["has_children"]

\* C17: a scheme that passed the occupation, age, gender, location and income
\* gates is rejected exactly when it matches a skill/training keyword and age >
\* 45, or an elderly/pension keyword and age < 40, or a child keyword and age >
\* 10 and has_children is not true; the three are tried in that order, so the
\* rejection carries the note of the first that applies.
C17_ContextualRules ==
    ReachedContextual =>
        IF AnyIn(skill_keywords, Text) /\ user_profile.age > 45
        THEN /\ ~Check.eligible
             /\ Check.confidence = 0
             /\ Check.reasons[Len(Check.reasons)] = "Primarily for younger individuals"
        ELSE IF AnyIn(elderly_keywords, Text) /\ user_profile.age < 40
        THEN RejectedWith("Pension schemes are for people 40+")
        ELSE IF AnyIn(child_keywords, Text) /\ user_profile.age > 10 /\ ~HasChildrenFlag
        THEN RejectedWith("For children or parents with children")
        ELSE Check.raised = "" /\ Check.eligible

\* a scheme for the elderly and for children, at age 11 without children: both
\* rules apply and the pension rule, the earlier one, gives the note
C17_Witness ==
    /\ ReachedContextual
    /\ AnyIn(elderly_keywords, Text)
    /\ AnyIn(child_keywords, Text)
    /\ user_profile.age = 11
    /\ ~HasChildrenFlag
    /\ RejectedWith("Pension schemes are for people 40+")

\* C18: for a scheme that survives all gates the confidence is 95 with no
\* caveat note, 75 with exactly one and 60 with more than one; the farmer of
\* create_sample_user_profile (35, rural, 150000, male) gets confidence 95 and
\* no note for a farmer-only scheme with age_limit "18-60" and income_limit
\* "$2 lakh".
C18_ConfidenceByNotes ==
    (Called /\ Check.raised = "" /\ Check.eligible) =>
        /\ Len(Check.reasons) = 0 => Check.confidence = 95
        /\ Len(Check.reasons) = 1 => Check.confidence = 75
        /\ Len(Check.reasons) > 1 => Check.confidence = 60
        /\ (/\ scheme = BaseScheme("farmer", 1, Str("18-60"), Str(Rupee \o "2 lakh"))
            /\ user_profile = UserProfile(35, Some(150000), "rural", "farmer", "male", NoInfo)) =>
               Check.confidence = 95 /\ Check.reasons = <<>>

\* a scheme accepted with two notes and confidence 60
C18_Witness ==
    /\ Called
    /\ Check.raised = ""
    /\ Check.eligible
    /\ Len(Check.reasons) = 2
    /\ Check.confidence = 60

\* the note is the caveat of the age block's except branch
IsAgeCaveat(note) == StartsWith(note, "Age criteria needs verification")

EmployedNote == "Primarily for unemployed youth"

\* C19 as claimed: the only caveat note an accepted scheme can carry is the
\* one of the age block's except branch, for any profile.
C19_OnlyAgeCaveat ==
    (Called /\ Check.raised = "" /\ Check.eligible) =>
        \A k \in 1..Len(Check.reasons) : IsAgeCaveat(Check.reasons[k])

\* C19 as amended: an accepted scheme carries at most two notes: the caveat of
\* the age block's except branch, and after it "Primarily for unemployed
\* youth", which it carries exactly when its text matches a skill/training
\* keyword and the occupation holds "employed" and not "unemployed".
C19_AgeCaveatOrEmployedNote ==
    (Called /\ Check.raised = "" /\ Check.eligible) =>
        /\ \A k \in 1..Len(Check.reasons) :
              IsAgeCaveat(Check.reasons[k]) \/ Check.reasons[k] = EmployedNote
        /\ \A j, k \in 1..Len(Check.reasons) :
              j < k => IsAgeCaveat(Check.reasons[j]) /\ Check.reasons[k] = EmployedNote
        /\ (\E k \in 1..Len(Check.reasons) : Check.reasons[k] = EmployedNote)
              <=> (/\ AnyIn(skill_keywords, Text)
                   /\ Contains(Occupation, "employed")
                   /\ ~Contains(Occupation, "unemployed"))

\* a skill scheme accepted for a self-employed trader with the one note
\* "Primarily for unemployed youth"
C19_Witness ==
    /\ Called
    /\ Check.raised = ""
    /\ Check.eligible
    /\ user_profile.occupation = "Self-Employed trader"
    /\ Check.reasons = <<EmployedNote>>
    /\ Check.confidence = 75

\* The note of the first rule the profile fails, in the order occupation, age,
\* gender, location, income, skill, pension, child ("" when it fails none)
FirstFailedNote ==
    LET age_limit == age_limit_of(scheme).str
        income_limit == get(scheme, "income_limit", Str(NoLimit)).str
    IN  IF OccupationGate(Text, user_profile) # ""
        THEN OccupationGate(Text, user_profile)
        ELSE IF AgeGate(age_limit, user_profile.age).kind = "reject"
        THEN AgeGate(age_limit, user_profile.age).note
        ELSE IF GenderGate(Text, user_profile) # ""
        THEN GenderGate(Text, user_profile)
        ELSE IF LocationGate(Text, user_profile) # ""
        THEN LocationGate(Text, user_profile)
        ELSE IF IncomeGate(income_limit, user_profile) # ""
        THEN IncomeGate(income_limit, user_profile)
        ELSE IF AnyIn(skill_keywords, Text) /\ user_profile.age > 45
        THEN "Primarily for younger individuals"
        ELSE IF AnyIn(elderly_keywords, Text) /\ user_profile.age < 40
        THEN "Pension schemes are for people 40+"
        ELSE IF AnyIn(child_keywords, Text) /\ user_profile.age > 10 /\ ~HasChildrenFlag
        THEN "For children or parents with children"
        ELSE ""

\* C20 as claimed: every rejection has confidence 0 and exactly one note, the
\* note of the first rule the profile fails in the order occupation, age,
\* gender, location, income, contextual adjustments.
C20_FirstFailureOnly ==
    (Called /\ Check.raised = "" /\ ~Check.eligible) =>
        /\ Check.confidence = 0
        /\ Len(Check.reasons) = 1
        /\ Check.reasons[1] = FirstFailedNote

---------------------------------------------------------------------------
(* Completeness of the list process returns, checked under Spec *)

\* the entries of the returned list that carry the id of catalog record i
EntriesOf(c, i) == {m \in 1..Len(Matched(c)) : Matched(c)[m].scheme_id = IdOf(i)}

\* C21: process returns every surviving scheme: each catalog record that
\* passes the rules for the profile is in matched_schemes exactly once, and
\* total_matched is the number of passing records, for every catalog size.
C21_EverySurvivorOnce ==
    \A c \in Calls :
        Returned(c) =>
            /\ \A i \in Passing(c) : Cardinality(EntriesOf(c, i)) = 1
            /\ c.result.total_matched = Cardinality(Passing(c))

\* the list of the first pass after the sort: what the second pass starts from
RuleBased(c) ==
    sort_by_confidence(first_pass(schemes_data, c.user_profile, Len(schemes_data)).entries)

\* the argument of _ai_verify_top_schemes in call c: eligible_schemes[:25]
Given(c) == SubSeq(RuleBased(c), 1, Min(AiVerifyTop, Len(RuleBased(c))))

\* call c reached _ai_verify_top_schemes
Verifying(c) == Returned(c) /\ Cardinality(Passing(c)) > AiVerifyThreshold

\* C25: when the LLM call raises, or its reply holds no JSON array of ids that
\* parses, _ai_verify_top_schemes returns the list it was given: the same
\* entries in the same order, every confidence and every notes list unchanged.
C25_FailedVerificationKeepsList ==
    \A c \in Calls :
        (Verifying(c) /\ ~ReplyParses(c.llm)) => Matched(c) = Given(c)

\* _ai_verify_top_schemes ran on a list with both confidences, once with a
\* raising LLM call and once with a reply whose array json.loads refuses
C25_Witness ==
    /\ Len(calls) = 2
    /\ Verifying(calls[1]) /\ Verifying(calls[2])
    /\ calls[1].llm.raises
    /\ ~calls[2].llm.raises
    /\ ArrayStarts(strip(calls[2].llm.text)) # {}
    /\ ~ReplyParses(calls[2].llm)
    /\ \E a, b \in 1..Len(Matched(calls[2])) :
          Matched(calls[2])[a].confidence # Matched(calls[2])[b].confidence
    /\ Matched(calls[1]) = Given(calls[1])

\* the number of times the note of the AI verification stands in notes
VerifiedNotes(notes) == Cardinality({k \in 1..Len(notes) : notes[k] = AiVerifiedMark})

\* C28: whatever the LLM replies, the list _ai_verify_top_schemes returns is a
\* permutation of the list it was given (each given scheme exactly once, also
\* when the reply repeats an id or names unknown ids), and no notes list holds
\* the AI Verified note more than once.
C28_PermutationOneNote ==
    \A c \in Calls :
        Verifying(c) =>
            /\ Len(Matched(c)) = Len(Given(c))
            /\ \A g \in 1..Len(Given(c)) :
                  Cardinality({m \in 1..Len(Matched(c)) :
                                  Matched(c)[m].scheme_id = Given(c)[g].scheme_id}) = 1
            /\ \A m \in 1..Len(Matched(c)) : VerifiedNotes(Matched(c)[m].notes) <= 1

---------------------------------------------------------------------------
(* Two invocations of process in progress at once on one agent, each with
   its own profile; a step is one statement of process, and one turn of its
   loop *)

Invocations == {1, 2}

\* eligible_schemes kept in one place for every invocation, as a field of the
\* agent would be
frame_shared(t) == 1

\* eligible_schemes = [] is a local of process: each invocation has its own
frame_of(t) == t

eligible_schemes_of(t) == frames[frame_of(t)].eligible_schemes

ThreadCatalogs ==
    {Catalog(Layout(f[1], f[2], n)) :
        f \in {<< <<>>, <<>> >>,
               << <<"skill">>, <<"elderly", "skill">> >>,
               << <<"farmer", "no_benefits">>, <<"student">> >>},
        n \in {3, AiVerifyThreshold + 2}}
    \cup {Catalog(Layout(<<"caveat">>, <<"null_text">>, 3))}

ThreadReplies ==
    {LlmRaises, LlmSays("[103, 101]"), LlmSays(" Best first: [112, 102, 102, 999]\n")}

ThreadProfiles ==
    <<UserProfile(35, Some(150000), "rural", "farmer", "male", NoInfo),
      UserProfile(30, Some(250000), "urban", "Self-Employed trader", "Female", NoInfo)>>

\* process(user_profile) was called and has not run a statement yet
Invoked(profile, llm) ==
    [user_profile |-> profile, llm |-> llm, pc |-> "start", n |-> 0,
     eligible_schemes |-> <<>>, result |-> <<>>]

InitThreads ==
    /\ schemes_data \in ThreadCatalogs
    /\ calls = <<>>
    /\ scheme = Null
    /\ user_profile = Null
    /\ eligibility_check = <<>>
    /\ \E l1, l2 \in ThreadReplies :
          frames = [t \in Invocations |->
                      Invoked(ThreadProfiles[t], IF t = 1 THEN l1 ELSE l2)]
    /\ NoApp /\ NoBackend

ThreadsFrame == UNCHANGED <<agent_vars, app_vars, backend_vars>>

\* eligible_schemes = []
StartProcess(t) ==
    /\ frames[t].pc = "start"
    /\ frames' = [[frames EXCEPT ![frame_of(t)].eligible_schemes = <<>>]
                    EXCEPT ![t].pc = IF Len(schemes_data) = 0 THEN "sort" ELSE "loop"]
    /\ ThreadsFrame

\* one turn of for scheme in self.schemes_data
LoopTurn(t) ==
    /\ frames[t].pc = "loop"
    /\ LET s == schemes_data[frames[t].n + 1]
           turn == loop_body([raised |-> "", entries |-> eligible_schemes_of(t)], s,
                             eligibility_checks[s][frames[t].user_profile])
       IN  IF turn.raised # ""
           THEN frames' = [frames EXCEPT ![t].pc = "raised",
                                         ![t].result = returned(turn.raised, <<>>)]
           ELSE frames' = [[frames EXCEPT ![frame_of(t)].eligible_schemes = turn.entries]
                              EXCEPT ![t].n = @ + 1,
                                     ![t].pc = IF frames[t].n + 1 = Len(schemes_data)
                                               THEN "sort" ELSE "loop"]
    /\ ThreadsFrame

\* eligible_schemes.sort(key=lambda x: x['confidence'], reverse=True)
SortSchemes(t) ==
    /\ frames[t].pc = "sort"
    /\ frames' = [[frames EXCEPT ![frame_of(t)].eligible_schemes =
                                    sort_by_confidence(eligible_schemes_of(t))]
                    EXCEPT ![t].pc = "second_pass"]
    /\ ThreadsFrame

\* if len(eligible_schemes) > 10: eligible_schemes = self._ai_verify_top_schemes(...)
SecondPass(t) ==
    /\ frames[t].pc = "second_pass"
    /\ frames' = [[frames EXCEPT ![frame_of(t)].eligible_schemes =
                                    second_pass(eligible_schemes_of(t), frames[t].llm)]
                    EXCEPT ![t].pc = "return"]
    /\ ThreadsFrame

\* return {'total_matched': len(eligible_schemes), 'matched_schemes': ...}
ReturnResult(t) ==
    /\ frames[t].pc = "return"
    /\ frames' = [frames EXCEPT ![t].pc = "done",
                                ![t].result = returned("", eligible_schemes_of(t))]
    /\ ThreadsFrame

NextThreads ==
    \E t \in Invocations :
        \/ StartProcess(t)
        \/ LoopTurn(t)
        \/ SortSchemes(t)
        \/ SecondPass(t)
        \/ ReturnResult(t)

SpecThreads == InitThreads /\ [][NextThreads]_vars

Ended(t) == frames[t].pc \in {"done", "raised"}

\* what invocation t returns when it runs alone
Alone(t) == process(schemes_data, frames[t].user_profile, frames[t].llm)

\* C22: process holds no shared mutable state. No step of an invocation
\* changes the catalog, also when the AI verification rewrites confidences and
\* notes, and two invocations on different profiles interleaved at any point
\* each end with the result they give when run alone.
C22_InterleavedAsAlone ==
    /\ [](\A t \in Invocations : Ended(t) => frames[t].result = Alone(t))
    /\ [][schemes_data' = schemes_data]_vars

\* both invocations ended after running in turn, the AI verification having
\* rewritten the list of one of them, with different results
C22_Witness ==
    /\ \A t \in Invocations : frames[t].pc = "done"
    /\ frames[1].result # frames[2].result
    /\ Len(frames[1].result.matched_schemes) > AiVerifyThreshold
    /\ ReplyParses(frames[1].llm)
    /\ \E m \in 1..Len(frames[1].result.matched_schemes) :
          VerifiedNotes(frames[1].result.matched_schemes[m].notes) > 0

---------------------------------------------------------------------------
(* SchemeFinderOrchestrator: its fields and its methods *)

\* self.current_user_profile = None; self.matched_schemes = None
NewOrchestrator == [current_user_profile |-> None, matched_schemes |-> None]

\* "not x" for x None or a dict
Not(opt) == opt = None \/ DOMAIN opt[1] = {}

\* set_user_profile(profile), result being what self.eligibility_agent.process
\* gives: the profile is stored first, matched_schemes only if process returns
set_user_profile(o, profile, result) ==
    [current_user_profile |-> Some(profile),
     matched_schemes |-> IF result.raised = "" THEN Some(result) ELSE o.matched_schemes]

NoProfileError == [error |-> "Please set user profile first"]

get_eligible_schemes(o) ==
    IF Not(o.matched_schemes) THEN NoProfileError ELSE o.matched_schemes[1]

\* the context ask_question hands to self.query_agent.process
ask_question_context(o) ==
    IF Not(o.matched_schemes) THEN [k \in {} |-> <<>>]
    ELSE [matched_schemes |-> o.matched_schemes[1].matched_schemes]

QueryTop == 5

\* QueryResolverAgent.process: the scheme names it puts into the prompt
schemes_list(context) ==
    IF DOMAIN context = {} \/ "matched_schemes" \notin DOMAIN context THEN <<>>
    ELSE LET matched == context.matched_schemes
         IN  [m \in 1..Min(QueryTop, Len(matched)) |-> matched[m].scheme_name]

\* ask_question(query) as it reaches the query agent
ask_question(o, query) ==
    [agent |-> "query_agent", query |-> query, context |-> ask_question_context(o),
     schemes_list |-> schemes_list(ask_question_context(o))]

\* next((s for s in self.schemes_data if s['scheme_id'] == scheme_id), None):
\* the index of the record found, 0 for None, -1 where s['scheme_id'] raises
\* KeyError on a record read before it
scheme_by_id(catalog, scheme_id) ==
    LET hits == {i \in 1..Len(catalog) :
                    "scheme_id" \in DOMAIN catalog[i] /\ catalog[i]["scheme_id"] = Num(scheme_id)}
        keyless == {i \in 1..Len(catalog) : "scheme_id" \notin DOMAIN catalog[i]}
        first(S) == CHOOSE i \in S : \A j \in S : i <= j
    IN  IF hits = {} THEN (IF keyless = {} THEN 0 ELSE -1)
        ELSE IF keyless # {} /\ first(keyless) < first(hits) THEN -1
        ELSE first(hits)

\* get_application_guide(scheme_id) as it reaches the guide agent
get_application_guide(o, catalog, scheme_id) ==
    LET i == scheme_by_id(catalog, scheme_id)
    IN  IF i = -1 THEN [agent |-> "none", raised |-> "KeyError"]
        ELSE IF i = 0 THEN [agent |-> "none", error |-> "Scheme not found"]
        ELSE [agent |-> "guide_agent", scheme |-> catalog[i],
              user_profile |-> o.current_user_profile]

---------------------------------------------------------------------------
(* Calls of the orchestrator's methods *)

OrchestratorCatalogs ==
    {Catalog(Layout(<<"farmer", "no_benefits">>, <<"student">>, 3)),
     Catalog(Layout(<<"farmer">>, <<"elderly">>, 2)),
     Catalog(Layout(<<>>, <<>>, 2)),
     Catalog(Layout(<<"skill">>, <<"elderly", "skill">>, AiVerifyThreshold + 2))}

OrchestratorReplies == {LlmRaises, LlmSays("[103, 101]")}

InitOrchestrator ==
    /\ schemes_data \in OrchestratorCatalogs
    /\ calls = <<>>
    /\ scheme = Null
    /\ user_profile = Null
    /\ eligibility_check = <<>>
    /\ orchestrator = NewOrchestrator
    /\ session_state = <<>>
    /\ last_call = <<>>
    /\ NoFrames /\ NoBackend

\* orchestrator.set_user_profile(profile), the LLM answering llm
SetUserProfile(profile, llm) ==
    /\ Len(calls) < MaxCalls
    /\ LET result == process(schemes_data, profile, llm)
       IN  /\ calls' = Append(calls, [user_profile |-> profile, llm |-> llm,
                                      result |-> result])
           /\ orchestrator' = set_user_profile(orchestrator, profile, result)
    /\ UNCHANGED <<schemes_data, scheme, user_profile, eligibility_check, frames,
                   session_state, last_call, backend_vars>>

\* orchestrator.get_eligible_schemes(), after the set_user_profile calls so far
GetEligibleSchemes ==
    /\ last_call' = <<[method |-> "get_eligible_schemes",
                       returned |-> get_eligible_schemes(orchestrator),
                       after |-> Len(calls)]>>
    /\ UNCHANGED <<agent_vars, frames, orchestrator, session_state, backend_vars>>

NextOrchestrator ==
    \/ \E profile \in FormProfiles, llm \in OrchestratorReplies : SetUserProfile(profile, llm)
    \/ GetEligibleSchemes

SpecOrchestrator == InitOrchestrator /\ [][NextOrchestrator]_vars

\* the set_user_profile calls, among the first k, that returned
Completed(k) == {j \in 1..k : calls[j].result.raised = ""}

\* C26: get_eligible_schemes returns the error dict exactly when no
\* set_user_profile call has completed; after any sequence of set_user_profile
\* calls it returns the match result of the most recently set profile, also
\* when that result holds zero schemes.
C26_ResultOfLatestProfile ==
    last_call # <<>> =>
        LET k == last_call[1].after
        IN  /\ (last_call[1].returned = NoProfileError) <=> (Completed(k) = {})
            /\ Completed(k) # {} =>
                  calls[k].result.raised = "" /\ last_call[1].returned = calls[k].result

---------------------------------------------------------------------------
(* The Streamlit app: st.session_state and the handlers of its widgets. Each
   action is one run of the script on one widget event. *)

MaxChat == 2

\* init_session_state
NewSession == [user_profile |-> None, matched_schemes |-> None, chat_history |-> <<>>]

\* Reset All leaving matched_schemes as it is
reset_all_keeps_matches(ss) == [ss EXCEPT !.user_profile = None, !.chat_history = <<>>]

\* the Reset All button of the sidebar
reset_all(ss) ==
    [ss EXCEPT !.user_profile = None, !.matched_schemes = None, !.chat_history = <<>>]

\* the Update Profile button
update_profile(ss) == [ss EXCEPT !.matched_schemes = None]

\* the submit button of the form: the profile is stored, then the orchestrator
\* asked; an exception out of set_user_profile ends the run of the script there
submit(ss, o, profile, result) ==
    [ss EXCEPT !.user_profile = Some(profile),
               !.matched_schemes =
                   IF result.raised = "" THEN Some(get_eligible_schemes(o)) ELSE @]

AppCatalogs ==
    {Catalog(Layout(<<"farmer", "no_benefits">>, <<"student">>, 3)),
     Catalog(Layout(<<"farmer">>, <<"elderly">>, 2)),
     Catalog(Layout(<<"skill">>, <<"elderly", "skill">>, AiVerifyThreshold + 1))}

AppReplies == {LlmRaises, LlmSays("[103, 101]")}

Questions == {"Which scheme pays most?"}
Answers == {"Ask at the block office."}

InitApp ==
    /\ schemes_data \in AppCatalogs
    /\ calls = <<>>
    /\ scheme = Null
    /\ user_profile = Null
    /\ eligibility_check = <<>>
    /\ orchestrator = NewOrchestrator
    /\ session_state = NewSession
    /\ last_call = <<>>
    /\ NoFrames /\ NoBackend

AppFrame ==
    UNCHANGED <<schemes_data, scheme, user_profile, eligibility_check, frames, backend_vars>>

\* main: the form while matched_schemes is None, else the results and the chat
FormShown == session_state.matched_schemes = None

\* display_matched_schemes got past its first test and read total_matched
ResultsShown ==
    /\ ~Not(session_state.matched_schemes)
    /\ "total_matched" \in DOMAIN session_state.matched_schemes[1]

\* what reached an agent, and the profile of the session at that time
Reached(call) == <<[reached |-> call, session_profile |-> session_state.user_profile]>>

SubmitForm(input, llm) ==
    /\ FormShown
    /\ Len(calls) < MaxCalls
    /\ LET profile == FormProfile(input[1], input[2], input[3], input[4], input[5])
           result == process(schemes_data, profile, llm)
       IN  /\ calls' = Append(calls, [user_profile |-> profile, llm |-> llm,
                                      result |-> result])
           /\ orchestrator' = set_user_profile(orchestrator, profile, result)
           /\ session_state' = submit(session_state,
                                      set_user_profile(orchestrator, profile, result),
                                      profile, result)
    /\ UNCHANGED last_call
    /\ AppFrame

UpdateProfile ==
    /\ ResultsShown
    /\ session_state' = update_profile(session_state)
    /\ UNCHANGED <<calls, orchestrator, last_call>>
    /\ AppFrame

ResetAll ==
    /\ session_state' = reset_all(session_state)
    /\ UNCHANGED <<calls, orchestrator, last_call>>
    /\ AppFrame

\* the Quick Chat box of the sidebar, shown on every page
QuickChat(question) ==
    /\ last_call' = Reached(ask_question(orchestrator, question))
    /\ UNCHANGED <<calls, orchestrator, session_state>>
    /\ AppFrame

\* chat_interface, below the results
ChatInput(question, answer) ==
    /\ ~FormShown
    /\ Len(session_state.chat_history) + 2 <= MaxChat
    /\ last_call' = Reached(ask_question(orchestrator, question))
    /\ session_state' =
          [session_state EXCEPT !.chat_history =
              @ \o <<[role |-> "user", content |-> question],
                     [role |-> "assistant", content |-> answer]>>]
    /\ UNCHANGED <<calls, orchestrator>>
    /\ AppFrame

ClearChat ==
    /\ ~FormShown
    /\ Len(session_state.chat_history) > 0
    /\ session_state' = [session_state EXCEPT !.chat_history = <<>>]
    /\ UNCHANGED <<calls, orchestrator, last_call>>
    /\ AppFrame

\* the How to Apply button of the m-th scheme shown
HowToApply(m) ==
    /\ ResultsShown
    /\ m \in 1..Len(session_state.matched_schemes[1].matched_schemes)
    /\ last_call' = Reached(get_application_guide(orchestrator, schemes_data,
                        session_state.matched_schemes[1].matched_schemes[m].scheme_id))
    /\ UNCHANGED <<calls, orchestrator, session_state>>
    /\ AppFrame

NextApp ==
    \/ \E input \in FormInputs, llm \in AppReplies : SubmitForm(input, llm)
    \/ UpdateProfile
    \/ ResetAll
    \/ \E question \in Questions : QuickChat(question)
    \/ \E question \in Questions, answer \in Answers : ChatInput(question, answer)
    \/ ClearChat
    \/ \E m \in 1..(AiVerifyThreshold + 1) : HowToApply(m)

SpecApp == InitApp /\ [][NextApp]_vars

\* C29: in the session state matched_schemes is not None only if user_profile
\* is not None, after any sequence of form submissions (also one in which
\* matching raises), Update Profile clicks and Reset All clicks; so
\* display_matched_schemes never reads a missing profile.
C29_MatchesImplyProfile ==
    session_state.matched_schemes # None => session_state.user_profile # None

\* results are shown after a submission in which matching raised was followed
\* by one that returned
C29_Witness ==
    /\ ResultsShown
    /\ Len(calls) = 2
    /\ calls[1].result.raised # ""
    /\ session_state.user_profile = Some(calls[2].user_profile)

\* C30: after Reset All nothing of the previous profile remains in effect
\* until a new profile is submitted: ask_question passes no matched schemes of
\* the earlier profile as context, and get_application_guide uses no earlier
\* profile.
C30_ResetForgetsProfile ==
    (last_call # <<>> /\ last_call[1].session_profile = None) =>
        LET r == last_call[1].reached
        IN  /\ r.agent = "query_agent" =>
                  "matched_schemes" \notin DOMAIN r.context /\ r.schemes_list = <<>>
            /\ r.agent = "guide_agent" => r.user_profile = None

---------------------------------------------------------------------------
(* The backend: values of its dicts, and the User Interaction Agent *)

\* float('nan'), what pandas gives for an empty cell
NaN == [type |-> "float", str |-> "nan", num |-> 0]

\* str(v)
str(v) ==
    CASE v.type = "str" -> v.str
      [] v.type = "int" -> ToString(v.num)
      [] v.type = "null" -> "None"
      [] v.type = "float" -> v.str

\* bool(v): None, '' and 0 are falsy, nan is not
truthy(v) ==
    CASE v.type = "str" -> v.str # ""
      [] v.type = "int" -> v.num # 0
      [] v.type = "null" -> FALSE
      [] v.type = "float" -> TRUE

\* d.get(a) or d.get(b)
get_or(d, a, b) == IF truthy(get(d, a, Null)) THEN d[a] ELSE get(d, b, Null)

UpperChar(c) ==
    LET k == IndexIn(c, LowerCase)
    IN  IF k > 0 THEN CharAt(UpperCase, k) ELSE c

upper(s) == Concat([i \in 1..Len(s) |-> UpperChar(CharAt(s, i))], 1, Len(s))

\* word.capitalize()
capitalize(word) ==
    IF Len(word) = 0 THEN ""
    ELSE UpperChar(CharAt(word, 1)) \o lower(SubSeq(word, 2, Len(word)))

\* s.split(): the words between runs of blanks
RECURSIVE words(_)
words(s) ==
    LET t == strip(s)
        blanks == {i \in 1..Len(t) : IsSpace(CharAt(t, i))}
    IN  IF t = "" THEN <<>>
        ELSE IF blanks = {} THEN <<t>>
        ELSE LET k == CHOOSE i \in blanks : \A j \in blanks : i <= j
             IN  <<SubSeq(t, 1, k - 1)>> \o words(SubSeq(t, k + 1, Len(t)))

\* sep.join(parts)
RECURSIVE join(_, _)
join(sep, parts) ==
    IF Len(parts) = 0 THEN ""
    ELSE IF Len(parts) = 1 THEN parts[1]
    ELSE parts[1] \o sep \o join(sep, Tail(parts))

\* s.replace(old, new) for a one-character old, applied to every old in olds
without_chars(s, olds) ==
    Concat([i \in 1..Len(s) |-> IF CharAt(s, i) \in olds THEN "" ELSE CharAt(s, i)],
           1, Len(s))

\* the longest prefix of s made of characters of chars
Prefix(s, chars) ==
    LET ends == {e \in 0..Len(s) : \A j \in 1..e : CharAt(s, j) \in chars}
    IN  SubSeq(s, 1, CHOOSE e \in ends : \A f \in ends : e >= f)

Digits == {CharAt(DigitChars, i) : i \in 1..Len(DigitChars)}

\* re.search(head tail*, s).group(): from the first character of heads, as far
\* as characters of tails follow ("" when there is no match)
first_match(s, heads, tails) ==
    LET starts == {i \in 1..Len(s) : CharAt(s, i) \in heads}
    IN  IF starts = {} THEN ""
        ELSE LET b == CHOOSE i \in starts : \A j \in starts : i <= j
             IN  CharAt(s, b) \o Prefix(SubSeq(s, b + 1, Len(s)), tails)

\* float(s) for s of digits and dots: ok is FALSE where it raises ValueError;
\* whole and frac are the digits before and after the dot
Float(s) ==
    LET parts == split(s, ".")
    IN  IF Len(parts) > 2 \/ digits_of(s) = "" THEN [ok |-> FALSE, whole |-> "", frac |-> ""]
        ELSE [ok |-> TRUE, whole |-> parts[1],
              frac |-> IF Len(parts) = 2 THEN parts[2] ELSE ""]

RECURSIVE Pow10(_)
Pow10(n) == IF n = 0 THEN 1 ELSE 10 * Pow10(n - 1)

\* int(float(s) * unit), for s that float accepts
Scaled(f, unit) ==
    DigitsValue(f.whole) * unit + (DigitsValue(f.frac) * unit) \div Pow10(Len(f.frac))

\* normalize_age
normalize_age(raw_age) ==
    IF raw_age.type = "null" THEN Null
    ELSE IF raw_age.type = "int" THEN raw_age
    ELSE LET match == first_match(str(raw_age), Digits, Digits)
         IN  IF match = "" THEN Null ELSE Num(DigitsValue(match))

LakhUnit == 100000
CroreUnit == 10000000

\* re.match(r"([\d\.]+)\s*word", raw_str): the group, "" when there is no match
amount_before(raw_str, word) ==
    LET group == Prefix(raw_str, Digits \cup {"."})
        rest == SubSeq(raw_str, Len(group) + 1, Len(raw_str))
        after == SubSeq(rest, Len(Prefix(rest, {" ", "\t", "\n", "\r"})) + 1, Len(rest))
    IN  IF group # "" /\ Len(after) >= Len(word) /\ SubSeq(after, 1, Len(word)) = word
        THEN group ELSE ""

\* normalize_income
normalize_income(raw_income) ==
    IF raw_income.type = "null" THEN Null
    ELSE LET raw_str == strip(without_chars(lower(str(raw_income)), {",", Rupee}))
             lakh == amount_before(raw_str, "lakh")
             crore == amount_before(raw_str, "crore")
             int == Prefix(raw_str, Digits)
         IN  IF lakh # ""
             THEN (IF Float(lakh).ok THEN Num(Scaled(Float(lakh), LakhUnit)) ELSE Null)
             ELSE IF crore # ""
             THEN (IF Float(crore).ok THEN Num(Scaled(Float(crore), CroreUnit)) ELSE Null)
             ELSE IF int # "" THEN Num(DigitsValue(int))
             ELSE Null

\* normalize_state
normalize_state(raw_state) ==
    IF raw_state.type = "null" THEN Null
    ELSE LET w == words(str(raw_state))
         IN  Str(join(" ", [k \in 1..Len(w) |-> capitalize(w[k])]))

\* normalize_category
normalize_category(raw_category) ==
    IF raw_category.type = "null" THEN Null
    ELSE LET cat == upper(strip(str(raw_category)))
         IN  CASE cat \in {"SC", "ST", "OBC"} -> Str(cat)
               [] cat \in {"GENERAL", "GEN"} -> Str("General")
               [] OTHER -> Null

\* normalize_occupation
normalize_occupation(raw_occupation) ==
    IF raw_occupation.type = "null" THEN Null
    ELSE Str(lower(strip(str(raw_occupation))))

ProfileKeys == <<"age", "income", "state", "category", "occupation">>

\* UserInteractionAgent.process with use_llm False: the clean_profile
clean_profile_of(raw_input) ==
    LET age == normalize_age(get_or(raw_input, "age", "Age"))
        income == normalize_income(get_or(raw_input, "income", "Income"))
        state_name == normalize_state(get_or(raw_input, "state", "State"))
        category == normalize_category(get_or(raw_input, "category", "Category"))
        occupation_raw ==
            IF truthy(get(raw_input, "occupation", Null)) THEN raw_input["occupation"]
            ELSE get_or(raw_input, "job", "Occupation")
        occupation == normalize_occupation(occupation_raw)
        values == <<age, income, state_name, category, occupation>>
    IN  [age |-> age, income |-> income, state |-> state_name, category |-> category,
         occupation |-> occupation,
         missing_fields |->
             SelectSeq(ProfileKeys,
                       LAMBDA key : LET k == CHOOSE i \in 1..5 : ProfileKeys[i] = key
                                    IN  values[k].type = "null")]

\* user_interaction_agent(state)
user_interaction_agent(state) == [clean_profile |-> clean_profile_of(state.raw_input)]

---------------------------------------------------------------------------
(* Scheme Retrieval, Scheme Matching and Guidance agents *)

\* state.update(d)
update(state, d) ==
    [k \in DOMAIN state \cup DOMAIN d |-> IF k \in DOMAIN d THEN d[k] ELSE state[k]]

RetrievedKeys ==
    {"scheme_name", "slug", "details", "benefits", "eligibility", "application",
     "documents", "level", "schemeCategory", "tags"}

\* the dict retrieval appends for a row
retrieved_of(row) == [k \in RetrievedKeys |-> get(row, k, Str(""))]

\* the test of the loop over SCHEMES_DF.iterrows()
row_matches(row, occupation, state_name) ==
    LET details == lower(str(get(row, "details", Str(""))))
        tags == lower(str(get(row, "tags", Str(""))))
        level == lower(str(get(row, "level", Str(""))))
    IN  /\ Contains(details, occupation) \/ Contains(tags, occupation)
        /\ level = lower(state_name) \/ level = "all" \/ level = ""

\* scheme_retrieval_agent(state): raised is the exception that leaves it
scheme_retrieval_agent(state, df) ==
    LET profile == get(state, "clean_profile", [k \in {} |-> Null])
        occupation == get(profile, "occupation", Str(""))
        state_name == get(profile, "state", Str(""))
    IN  IF ~IsStr(occupation) \/ ~IsStr(state_name)
        THEN [raised |-> "AttributeError", retrieved_schemes |-> <<>>]
        ELSE [raised |-> "",
              retrieved_schemes |->
                  LET kept == SelectSeq(df, LAMBDA row :
                                  row_matches(row, lower(occupation.str), lower(state_name.str)))
                  IN  [k \in 1..Len(kept) |-> retrieved_of(kept[k])]]

NoIncomeLimit == 1000000000

\* parse_income_limit(text)
parse_income_limit(text) ==
    IF ~IsStr(text) THEN NoIncomeLimit
    ELSE LET match == first_match(text.str, Digits, Digits \cup {",", "."})
             number == Float(without_chars(match, {","}))
         IN  IF match = "" \/ ~number.ok THEN NoIncomeLimit
             ELSE DigitsValue(number.whole)

\* the body of the try of scheme_matching_agent for one scheme: "eligible",
\* "continue", or the exception it raises
check_scheme(profile, s) ==
    LET occupation == get(profile, "occupation", Str(""))
        income == get(profile, "income", Num(NoIncomeLimit))
        category == get(profile, "category", Null)
        cat_required == get(s, "schemeCategory", Str(""))
    IN  IF ~IsStr(occupation) THEN "AttributeError"
        ELSE IF /\ ~Contains(lower(str(get(s, "tags", Str("")))), lower(occupation.str))
                /\ ~Contains(lower(str(get(s, "details", Str("")))), lower(occupation.str))
        THEN "continue"
        ELSE IF income.type \in {"null", "str"} THEN "TypeError"
        ELSE IF income.type = "int"
                /\ income.num > parse_income_limit(get(s, "eligibility", Str("")))
        THEN "continue"
        ELSE IF ~IsStr(cat_required) THEN "AttributeError"
        ELSE IF truthy(category) /\ ~IsStr(category) THEN "AttributeError"
        ELSE IF /\ cat_required.str # ""
                /\ truthy(category)
                /\ ~Contains(lower(cat_required.str), lower(category.str))
        THEN "continue"
        ELSE "eligible"

\* the except of the loop leaving the loop instead of going on
on_error_break(before, s, exception) ==
    [before EXCEPT !.logged = Append(@, get(s, "scheme_name", Null)), !.left = TRUE]

\* except Exception as e: logging.error(...); continue
on_error(before, s, exception) ==
    [before EXCEPT !.logged = Append(@, get(s, "scheme_name", Null))]

\* the loop over the first n retrieved schemes: the list eligible, the names
\* logged as errors, and whether the loop was left
RECURSIVE matching_loop(_, _, _)
matching_loop(profile, retrieved, n) ==
    IF n = 0 THEN [eligible |-> <<>>, logged |-> <<>>, left |-> FALSE]
    ELSE LET before == matching_loop(profile, retrieved, n - 1)
             verdict == check_scheme(profile, retrieved[n])
         IN  IF before.left \/ verdict = "continue" THEN before
             ELSE IF verdict = "eligible"
             THEN [before EXCEPT !.eligible = Append(@, retrieved[n])]
             ELSE on_error(before, retrieved[n], verdict)

\* scheme_matching_agent(state)
scheme_matching_agent(state) ==
    LET retrieved == get(state, "retrieved_schemes", <<>>)
    IN  [eligible_schemes |->
            matching_loop(get(state, "clean_profile", [k \in {} |-> Null]),
                          retrieved, Len(retrieved)).eligible]

GuidanceMaxLen == 300

\* simplify_text(text)
simplify_text(text) ==
    LET flat == replace(replace(str(text), "\n", " "), "\r", " ")
        plain == join(" ", words(without_chars(flat, {"\""})))
    IN  IF Len(plain) > GuidanceMaxLen
        THEN SubSeq(plain, 1, GuidanceMaxLen) \o "..."
        ELSE plain

\* guidance_agent(state)
guidance_agent(state) ==
    LET eligible == get(state, "eligible_schemes", <<>>)
    IN  [guidance |->
            [k \in 1..Len(eligible) |->
                [scheme_name |-> get(eligible[k], "scheme_name", Null),
                 benefits |-> simplify_text(get(eligible[k], "benefits", Str(""))),
                 eligibility |-> simplify_text(get(eligible[k], "eligibility", Str(""))),
                 application |-> simplify_text(get(eligible[k], "application", Str(""))),
                 documents |-> simplify_text(get(eligible[k], "documents", Str("")))]]]

---------------------------------------------------------------------------
(* The endpoints: POST /apply of main.py and POST /check-eligibility of api.py *)

OK == 200
InternalServerError == 500

\* the state after the guidance agent ran on the state matching left
guide(state) ==
    [raised |-> "", ran |-> <<"user", "retrieve", "match", "guide">>,
     state |-> state, guidance |-> guidance_agent(state).guidance]

\* the state after the matching agent ran on the state retrieval left
match(state) == guide(update(state, scheme_matching_agent(state)))

\* what follows the retrieval agent: its exception ends the run
retrieve(state, found) ==
    IF found.raised # ""
    THEN [raised |-> found.raised, ran |-> <<"user">>, state |-> state, guidance |-> <<>>]
    ELSE match(update(state, [retrieved_schemes |-> found.retrieved_schemes]))

\* what follows the user interaction agent
user(state, df) == retrieve(state, scheme_retrieval_agent(state, df))

\* the four agents in turn, each on the state the ones before left: the state
\* reached, the agents that returned, and the exception that ended the run
pipeline(raw_input, df) ==
    user([raw_input |-> raw_input,
          clean_profile |-> user_interaction_agent([raw_input |-> raw_input]).clean_profile],
         df)

\* the response of /apply to a run of the agents
apply_response(run) ==
    IF run.raised # ""
    THEN [status |-> InternalServerError, detail |-> run.raised, ran |-> run.ran]
    ELSE [status |-> OK, ran |-> run.ran,
          body |-> update(run.state, [guidance |-> run.guidance])]

\* apply_for_schemes(input_data)
apply_for_schemes(raw_input, df) == apply_response(pipeline(raw_input, df))

\* the keys of CitizenState
CitizenStateKeys ==
    {"raw_input", "clean_profile", "retrieved_schemes", "eligible_schemes", "final_guidance"}

\* the state graph_app.invoke gives after a run of its nodes. The guide node
\* returns the key "guidance", which CitizenState does not have: the graph
\* library either refuses the update (strict) or drops the key.
graph_result(run, strict) ==
    IF run.raised # "" THEN [raised |-> run.raised, ran |-> run.ran, state |-> run.state]
    ELSE IF strict
    THEN [raised |-> "InvalidUpdateError", ran |-> run.ran, state |-> run.state]
    ELSE [raised |-> "", ran |-> run.ran,
          state |-> [k \in (DOMAIN run.state \cup {"guidance"}) \cap CitizenStateKeys |->
                        run.state[k]]]

\* graph_app.invoke({"raw_input": data}): the nodes user, retrieve, match, guide
graph_invoke(data, df, strict) == graph_result(pipeline(data, df), strict)

\* the response of /check-eligibility to the result of the graph
eligibility_response(result) ==
    IF result.raised # ""
    THEN [status |-> InternalServerError, detail |-> result.raised, ran |-> result.ran]
    ELSE IF "final_guidance" \notin DOMAIN result.state
    THEN [status |-> InternalServerError, detail |-> "KeyError", ran |-> result.ran]
    ELSE [status |-> OK, ran |-> result.ran,
          body |-> [guidance |-> result.state["final_guidance"]]]

\* check_eligibility(data)
check_eligibility(data, df, strict) == eligibility_response(graph_invoke(data, df, strict))

---------------------------------------------------------------------------
(* Requests to the backend: the rows of schemes.csv, the raw inputs, and the
   states scheme_matching_agent is called on *)

RECURSIVE Repeat(_, _)
Repeat(s, n) == IF n = 0 THEN "" ELSE s \o Repeat(s, n - 1)

Row(name, details, benefits, eligibility, level, category, tags) ==
    [scheme_name |-> name, slug |-> Str("slug"), details |-> details,
     benefits |-> benefits, eligibility |-> eligibility,
     application |-> Str("Apply at the  district office.\r\nCarry \"originals\"."),
     documents |-> NaN, level |-> level, schemeCategory |-> category, tags |-> tags]

Rows ==
    [fisher |->
        Row(Str("Fishermen Relief"), Str("Support for Fisherman families in the lean season"),
            Str("Rs 4500 per season"), Str("Income must be <= 200000"),
            Str("Puducherry"), Str("Agriculture,Rural & Environment"),
            Str("fisherman, relief")),
     farmer_open |->
        Row(Str("Kisan Credit"), Str("Credit for every farmer"),
            Str(Repeat("Rs 6000 a year in three parts. ", 11)), NaN,
            Str("All"), Str("Agriculture"), Str("Farmer, loan")),
     farmer_uncategorised |->
        Row(Str("Krishi Bima"), Str("Crop insurance for the farmer"),
            Str("Premium subsidy"), Str("Annual income below Rs. 1,50,000.50 only"),
            Str("all"), NaN, Str("farmer")),
     farmer_sc |->
        Row(Str("SC Farmer Grant"), Str("Grant for a farmer of the scheduled castes"),
            Str("Rs 10000"), Str("Form 1.2.3 of the department"),
            Str("Karnataka"), Str("SC, ST welfare"), NaN),
     farmer_unnamed |->
        Row(NaN, Str("Tools for the small FARMER"), NaN, Str("No income bar"),
            Str(""), Str(""), Str("farmer, tools")),
     teacher |->
        Row(Str("Teacher Award"), Str("Award for the school teacher"),
            Str("A medal"), Str("Age 18 to 60"), NaN, Str("Education"),
            Str("teacher"))]

SchemeTables ==
    {<<>>,
     <<Rows.fisher, Rows.farmer_uncategorised, Rows.farmer_open, Rows.farmer_sc,
       Rows.teacher, Rows.farmer_unnamed>>,
     <<Rows.farmer_sc, Rows.farmer_open, Rows.farmer_uncategorised>>}

RawInputs ==
    {[Age |-> Str("30 years"), income |-> Str("1.5 lakh"), State |-> Str("karnataka"),
      job |-> Str("Farmer")],
     [Age |-> Str("45"), income |-> Str(Rupee \o "2,50,000"), State |-> Str("maharashtra"),
      category |-> Str("OBC"), Occupation |-> Str("teacher")],
     [age |-> Num(30), income |-> Num(150000), State |-> Str("Puducherry"),
      job |-> Str("Fisherman")],
     [Age |-> Null, income |-> Null, State |-> Str(""), job |-> Str("")],
     [Age |-> Str("30"), income |-> Str("150000"), State |-> Str("Karnataka")],
     [Age |-> Str("30"), income |-> Str("150000"), job |-> Str("farmer")],
     [State |-> Str("karnataka"), job |-> Str("Farmer"), category |-> Str("sc")],
     [age |-> Str("age: 41"), income |-> Str("2 crore"), state |-> Str("  tamil   nadu "),
      job |-> Str(" FARMER "), category |-> Str("gen")],
     [Age |-> Str("30"), income |-> Str("1.2.3 lakh"), State |-> Str("Karnataka"),
      occupation |-> Str(""), Occupation |-> Str("farmer"), category |-> Str("SC")],
     [k \in {} |-> Null]}

\* the states scheme_matching_agent is called on: a clean profile, and the
\* dicts retrieval builds for the rows of a table
MatchingStates ==
    {[clean_profile |-> clean_profile_of(raw),
      retrieved_schemes |-> [k \in 1..Len(df) |-> retrieved_of(df[k])]] :
        raw \in RawInputs, df \in SchemeTables}

\* the runs of the agents, the responses of the endpoints and the results of
\* the matching agent on these requests, each computed once
pipelines == [raw_input \in RawInputs, df \in SchemeTables |-> pipeline(raw_input, df)]

applied ==
    [raw_input \in RawInputs, df \in SchemeTables |-> apply_for_schemes(raw_input, df)]

checked ==
    [data \in RawInputs, df \in SchemeTables, strict \in BOOLEAN |->
        check_eligibility(data, df, strict)]

matchings ==
    [state \in MatchingStates |->
        [returned |-> scheme_matching_agent(state),
         logged |-> matching_loop(state.clean_profile, state.retrieved_schemes,
                                  Len(state.retrieved_schemes)).logged]]

InitBackend ==
    /\ schemes_data = <<>>
    /\ calls = <<>>
    /\ scheme = Null
    /\ user_profile = Null
    /\ eligibility_check = <<>>
    /\ SCHEMES_DF \in SchemeTables
    /\ request = <<>>
    /\ response = <<>>
    /\ NoFrames /\ NoApp

BackendFrame == UNCHANGED <<agent_vars, frames, app_vars, SCHEMES_DF>>

\* POST /apply with {"raw_input": raw_input}
Apply(raw_input) ==
    /\ request' = <<[endpoint |-> "/apply", raw_input |-> raw_input]>>
    /\ response' = <<applied[raw_input, SCHEMES_DF]>>
    /\ BackendFrame

\* POST /check-eligibility with data
CheckEligibility(data, strict) ==
    /\ request' = <<[endpoint |-> "/check-eligibility", raw_input |-> data]>>
    /\ response' = <<checked[data, SCHEMES_DF, strict]>>
    /\ BackendFrame

\* scheme_matching_agent(state), with the names its except clause logged
MatchSchemes(state) ==
    /\ request' = <<[endpoint |-> "scheme_matching_agent", state |-> state]>>
    /\ response' = <<matchings[state]>>
    /\ BackendFrame

NextBackend ==
    \/ \E raw_input \in RawInputs : Apply(raw_input)
    \/ \E data \in RawInputs, strict \in BOOLEAN : CheckEligibility(data, strict)
    \/ \E state \in MatchingStates : MatchSchemes(state)

SpecBackend == InitBackend /\ [][NextBackend]_vars

Served(endpoint) == request # <<>> /\ request[1].endpoint = endpoint

\* the verdict on the n-th retrieved scheme of the state matching was called on
VerdictOn(n) == check_scheme(request[1].state.clean_profile,
                             request[1].state.retrieved_schemes[n])

Failed(n) == VerdictOn(n) \notin {"eligible", "continue"}

\* C23: scheme_matching_agent never aborts the batch. An error raised while
\* one retrieved scheme is checked (an occupation or income of None in the
\* profile, a malformed field of the scheme) is logged and skips that scheme
\* only: the schemes after it are still checked, and eligible_schemes is the
\* retrieved schemes that pass their own check, in the order retrieved.
C23_ErrorSkipsOneScheme ==
    Served("scheme_matching_agent") =>
        LET retrieved == request[1].state.retrieved_schemes
            failed == SelectSeq([n \in 1..Len(retrieved) |-> n], LAMBDA n : Failed(n))
        IN  /\ response[1].returned.eligible_schemes =
                  SelectSeq(retrieved,
                            LAMBDA s : check_scheme(request[1].state.clean_profile, s)
                                         = "eligible")
            /\ response[1].logged =
                  [k \in 1..Len(failed) |-> retrieved[failed[k]]["scheme_name"]]

\* a scheme with a malformed field raised, and a scheme retrieved after it is
\* in eligible_schemes
C23_Witness ==
    /\ Served("scheme_matching_agent")
    /\ \E n, m \in 1..Len(request[1].state.retrieved_schemes) :
          /\ n < m
          /\ VerdictOn(n) = "AttributeError"
          /\ VerdictOn(m) = "eligible"
    /\ Len(response[1].returned.eligible_schemes) >= 2
    /\ Len(response[1].logged) >= 1

\* C24: for every raw_input, also one with no occupation/job or no state,
\* /apply runs the four agents in the order user interaction, retrieval,
\* matching, guidance and returns a state holding clean_profile,
\* retrieved_schemes, eligible_schemes and guidance, not an error response.
C24_ApplyReturnsState ==
    Served("/apply") =>
        /\ response[1].status = OK
        /\ response[1].ran = <<"user", "retrieve", "match", "guide">>
        /\ {"clean_profile", "retrieved_schemes", "eligible_schemes", "guidance"}
              \subseteq DOMAIN response[1].body

\* C27: /check-eligibility returns the guidance of the guide node: after the
\* graph ran user, retrieve, match, guide, final_guidance holds what
\* guidance_agent gave for the eligible schemes.
C27_GuidanceReturned ==
    Served("/check-eligibility") =>
        /\ response[1].status = OK
        /\ response[1].ran = <<"user", "retrieve", "match", "guide">>
        /\ response[1].body.guidance = pipelines[request[1].raw_input, SCHEMES_DF].guidance

====
